---- MODULE Spec2Model ----
(***************************************************************************)
(* Verification model of clearskies-aws: the Lambda trigger adapters       *)
(* (input_outputs/*.py), the SQS batch dispatcher and Step Functions       *)
(* contexts, the AWS actions (actions/*.py), the Parameter Store secrets   *)
(* backend and its cache (secrets/), and the RDS IAM cursor (cursors/iam). *)
(*                                                                         *)
(* Text is modelled as a sequence of code points, bytes as a sequence of   *)
(* integers 0..255, and a Python dict as a sequence of <<key, value>>      *)
(* pairs with distinct keys (insertion order is kept, as in Python).       *)
(***************************************************************************)
EXTENDS Integers, Sequences, FiniteSets, TLC

VARIABLES
    \* ---- SQS batch dispatcher (contexts/lambda_sqs_standard.py) ----
    sqs_pc,          \* "idle" | "loop" | "done" | "fatal"
    sqs_event,       \* the batch payload of the current invocation
    sqs_idx,         \* position of the for-loop over event["Records"]
    item_failures,   \* the local list of {"itemIdentifier": id}
    sqs_io,          \* the LambdaSqsStandard input_output built for the record
    sqs_invoked,     \* history: indexes of the records handed to the handler
    sqs_raised,      \* history: indexes of the records whose handler raised
    sqs_reply,       \* value returned by the dispatcher
    \* ---- LambdaAPIGateway construction (parse_event_v1) ----
    gw_pc,           \* "new" | "built" | "failed"
    gw_event,        \* the API Gateway v1 event given to __init__
    request_method,
    path,
    query_parameters,
    path_parameters,
    request_headers,
    \* ---- LambdaAPIGateway.get_body ----
    body_event,        \* the "body" and "isBase64Encoded" fields of the event
    body_origin,       \* history: how the event's body was produced
    cached_body,       \* self._cached_body
    body_was_cached,   \* self._body_was_cached
    body_ret,          \* outcome of the last get_body() call
    body_calls,        \* history: number of get_body() calls
    body_decodes,      \* history: number of base64 decodings applied
    \* ---- LambdaAPIGateway.respond ----
    resp_pc,           \* "open" | "replied"
    response_headers,  \* self.response_headers
    resp_body,         \* the body given to respond()
    resp_status,       \* the status_code given to respond()
    resp_reply,        \* the dict returned by respond()
    \* ---- get_client_ip of the HTTP-shaped adapters ----
    ip_adapter,        \* "none" | "v1" | "v2" | "alb" | "ws"
    ip_event,          \* source IP and headers of the event
    ip_headers,        \* the adapter's request headers
    ip_ret,            \* outcome of get_client_ip()
    \* ---- LambdaALB construction (input_outputs/lambda_alb.py) ----
    alb_pc,            \* "new" | "built" | "failed"
    alb_event,         \* the httpMethod and headers of the ALB event
    alb_request_method, \* self._request_method, None while unset
    alb_headers,       \* self._request_headers, None while unset
    alb_error,         \* the exception raised by __init__
    \* ---- LambdaSns (input_outputs/lambda_sns.py) ----
    sns_pc,            \* "new" | "built" | "failed"
    sns_event,         \* the event given to __init__
    sns_request_method, \* self.request_method
    sns_record,        \* self.record, None while unset
    sns_private_record, \* self._record, None while unset
    sns_error,         \* class of the exception raised by __init__
    sns_request_data,  \* outcome of reading the request_data property
    sns_handler_calls, \* history: number of handler invocations
    \* ---- Step Functions context and adapter (lambda_step_function.py) ----
    sf_pc,             \* "idle" | "built" | "injected" | "failed" | "replied"
    sf_keys,           \* the environment_keys the context was configured with
    sf_event,          \* the event of the current invocation
    sf_env,            \* the cached Environment of the context
    sf_env_before,     \* history: the Environment when extraction started
    sf_error,          \* the exception raised by the extraction
    sf_body,           \* the handler's result
    sf_status,         \* the status code given to respond()
    sf_reply,          \* outcome of respond()
    sf_invocations,    \* history: number of invocations started
    \* ---- AWS actions (actions/action_aws.py, actions/sns.py) ----
    act_config,        \* when, topic, message_callable and can_cache of the action
    act_client,        \* self.client: 0 for None, else the id of a boto3 client
    act_clients_created, \* history: number of boto3.client(...) calls
    act_log,           \* history: one entry per call of the action
    \* ---- ParameterStore._sanitize_path ----
    san_path,          \* the path given to _sanitize_path
    san_done,          \* whether _sanitize_path has returned
    san_ret,           \* the text it returned
    \* ---- ParameterStore and ParameterStoreCache (secrets/) ----
    ps_store,          \* the parameters held by SSM: name -> value or NoParameter
    ps_cache,          \* prefix and allow_cleanup of the ParameterStoreCache
    ps_op,             \* the last operation and its arguments
    ps_before,         \* history: ps_store when the last operation started
    ps_calls,          \* history: the client calls of the last operation
    ps_ret,            \* outcome of the last operation
    \* ---- cursors/iam MySql.build_connection_kwargs ----
    my_env,            \* the environment values the cursor reads
    my_port_forwarding,  \* self.port_forwarding
    my_base_port,      \* "port" of super().build_connection_kwargs(), 0 if absent
    my_done,           \* whether build_connection_kwargs has ended
    my_token_calls,    \* history: arguments of the generate_db_auth_token calls
    my_ret,            \* outcome of build_connection_kwargs
    \* ---- cursors/iam MySql.port_forwarding_context ----
    pf_env,            \* the environment values the cursor reads
    pf_pc,             \* "start" | "first_probe" | "find_bastion" | "launch" | "loop" | "done"
    pf_attempts,       \* the local attempts
    pf_connected,      \* the local connected
    pf_probes,         \* history: result of each probe made in the loop
    pf_calls,          \* history: "describe_instances" and "Popen" calls
    pf_ret             \* outcome of port_forwarding_context

sqsVars == <<sqs_pc, sqs_event, sqs_idx, item_failures, sqs_io, sqs_invoked,
             sqs_raised, sqs_reply>>

gwVars == <<gw_pc, gw_event, request_method, path, query_parameters,
            path_parameters, request_headers>>

bodyVars == <<body_event, body_origin, cached_body, body_was_cached, body_ret,
              body_calls, body_decodes>>

respVars == <<resp_pc, response_headers, resp_body, resp_status, resp_reply>>

ipVars == <<ip_adapter, ip_event, ip_headers, ip_ret>>

albVars == <<alb_pc, alb_event, alb_request_method, alb_headers, alb_error>>

snsVars == <<sns_pc, sns_event, sns_request_method, sns_record,
             sns_private_record, sns_error, sns_request_data,
             sns_handler_calls>>

sfVars == <<sf_pc, sf_keys, sf_event, sf_env, sf_env_before, sf_error, sf_body,
            sf_status, sf_reply, sf_invocations>>

actVars == <<act_config, act_client, act_clients_created, act_log>>

sanVars == <<san_path, san_done, san_ret>>

psVars == <<ps_store, ps_cache, ps_op, ps_before, ps_calls, ps_ret>>

myVars == <<my_env, my_port_forwarding, my_base_port, my_done, my_token_calls,
    my_ret>>

pfVars == <<pf_env, pf_pc, pf_attempts, pf_connected, pf_probes, pf_calls,
    pf_ret>>

vars == <<sqsVars, gwVars, bodyVars, respVars, ipVars, albVars, snsVars,
    sfVars, actVars, sanVars, psVars, myVars, pfVars>>

nonSqsVars == <<gwVars, bodyVars, respVars, ipVars, albVars, snsVars,
    sfVars, actVars, sanVars, psVars, myVars, pfVars>>

nonGwVars == <<sqsVars, bodyVars, respVars, ipVars, albVars, snsVars,
    sfVars, actVars, sanVars, psVars, myVars, pfVars>>

nonBodyVars == <<sqsVars, gwVars, respVars, ipVars, albVars, snsVars,
    sfVars, actVars, sanVars, psVars, myVars, pfVars>>

nonRespVars == <<sqsVars, gwVars, bodyVars, ipVars, albVars, snsVars,
    sfVars, actVars, sanVars, psVars, myVars, pfVars>>

nonIpVars == <<sqsVars, gwVars, bodyVars, respVars, albVars, snsVars,
    sfVars, actVars, sanVars, psVars, myVars, pfVars>>

nonAlbVars == <<sqsVars, gwVars, bodyVars, respVars, ipVars, snsVars,
    sfVars, actVars, sanVars, psVars, myVars, pfVars>>

nonSnsVars == <<sqsVars, gwVars, bodyVars, respVars, ipVars, albVars,
    sfVars, actVars, sanVars, psVars, myVars, pfVars>>

nonSfVars == <<sqsVars, gwVars, bodyVars, respVars, ipVars, albVars,
    snsVars, actVars, sanVars, psVars, myVars, pfVars>>

nonActVars == <<sqsVars, gwVars, bodyVars, respVars, ipVars, albVars,
    snsVars, sfVars, sanVars, psVars, myVars, pfVars>>

nonSanVars == <<sqsVars, gwVars, bodyVars, respVars, ipVars, albVars,
    snsVars, sfVars, actVars, psVars, myVars, pfVars>>

nonPsVars == <<sqsVars, gwVars, bodyVars, respVars, ipVars, albVars,
    snsVars, sfVars, actVars, sanVars, myVars, pfVars>>

nonMyVars == <<sqsVars, gwVars, bodyVars, respVars, ipVars, albVars,
    snsVars, sfVars, actVars, sanVars, psVars, pfVars>>

nonPfVars == <<sqsVars, gwVars, bodyVars, respVars, ipVars, albVars,
    snsVars, sfVars, actVars, sanVars, psVars, myVars>>

(***************************************************************************)
(* Bounds                                                                  *)
(***************************************************************************)
MaxRecords == 3
MaxHeaders == 2
MaxMultiHeaders == 1
MaxQuery == 2
MaxMultiQuery == 1
MaxBody == 3
MaxCalls == 2
MaxItems == 2
MaxIpHeaders == 2

(***************************************************************************)
(* Generic helpers                                                         *)
(***************************************************************************)
Range(s) == {s[i] : i \in DOMAIN s}

SeqsUpTo(S, n) == UNION {[1..k -> S] : k \in 0..n}

IsInjective(s) == \A i, j \in DOMAIN s : s[i] = s[j] => i = j

(***************************************************************************)
(* Text: str.lower / str.upper on code points                              *)
(***************************************************************************)
LowerChar(c) == IF c \in 65..90 THEN c + 32 ELSE c

UpperChar(c) == IF c \in 97..122 THEN c - 32 ELSE c

Lower(s) == [i \in DOMAIN s |-> LowerChar(s[i])]

Upper(s) == [i \in DOMAIN s |-> UpperChar(s[i])]

RECURSIVE Concat(_)
Concat(ss) == IF ss = <<>> THEN <<>> ELSE Head(ss) \o Concat(Tail(ss))

(***************************************************************************)
(* str.encode("utf-8") / bytes.decode("utf-8") for code points below 2048  *)
(***************************************************************************)
RECURSIVE Utf8Encode(_)
Utf8Encode(text) ==
    IF text = <<>> THEN <<>>
    ELSE (IF Head(text) < 128 THEN <<Head(text)>>
          ELSE <<192 + (Head(text) \div 64), 128 + (Head(text) % 64)>>)
             \o Utf8Encode(Tail(text))

Utf8Bad == [ok |-> FALSE, v |-> <<>>]

RECURSIVE Utf8DecodeFrom(_, _)
Utf8DecodeFrom(bytes, out) ==
    IF bytes = <<>> THEN [ok |-> TRUE, v |-> out]
    ELSE IF Head(bytes) < 128
         THEN Utf8DecodeFrom(Tail(bytes), Append(out, Head(bytes)))
         ELSE IF /\ Head(bytes) \in 194..223
                 /\ Len(bytes) >= 2
                 /\ bytes[2] \in 128..191
              THEN Utf8DecodeFrom(Tail(Tail(bytes)),
                       Append(out, (Head(bytes) - 192) * 64 + (bytes[2] - 128)))
              ELSE Utf8Bad

Utf8DecodeLatin1(bytes) == [ok |-> TRUE, v |-> bytes]
Utf8Decode(bytes) == Utf8DecodeFrom(bytes, <<>>)

(***************************************************************************)
(* base64 (binascii): b2a_base64, encodebytes, a2b_base64                  *)
(***************************************************************************)
B64Pad == 61

MaxBinSize == 57

B64Char(i) ==
    IF i < 26 THEN 65 + i
    ELSE IF i < 52 THEN 97 + (i - 26)
    ELSE IF i < 62 THEN 48 + (i - 52)
    ELSE IF i = 62 THEN 43 ELSE 47

IsB64Char(c) == c \in (65..90) \cup (97..122) \cup (48..57) \cup {43, 47}

B64Index(c) ==
    IF c \in 65..90 THEN c - 65
    ELSE IF c \in 97..122 THEN c - 71
    ELSE IF c \in 48..57 THEN c + 4
    ELSE IF c = 43 THEN 62 ELSE 63

\* base64.b64encode
RECURSIVE B64Encode(_)
B64Encode(b) ==
    IF b = <<>> THEN <<>>
    ELSE IF Len(b) = 1
    THEN <<B64Char(b[1] \div 4), B64Char((b[1] % 4) * 16), B64Pad, B64Pad>>
    ELSE IF Len(b) = 2
    THEN <<B64Char(b[1] \div 4), B64Char((b[1] % 4) * 16 + (b[2] \div 16)),
           B64Char((b[2] % 16) * 4), B64Pad>>
    ELSE <<B64Char(b[1] \div 4), B64Char((b[1] % 4) * 16 + (b[2] \div 16)),
           B64Char((b[2] % 16) * 4 + (b[3] \div 64)), B64Char(b[3] % 64)>>
             \o B64Encode(SubSeq(b, 4, Len(b)))

\* base64.encodebytes: lines of at most MaxBinSize bytes, each ended by "\n"
RECURSIVE EncodeBytes(_)
EncodeBytes(b) ==
    IF b = <<>> THEN <<>>
    ELSE IF Len(b) <= MaxBinSize THEN B64Encode(b) \o <<10>>
    ELSE B64Encode(SubSeq(b, 1, MaxBinSize)) \o <<10>>
             \o EncodeBytes(SubSeq(b, MaxBinSize + 1, Len(b)))

B64Bad == [ok |-> FALSE, v |-> <<>>]

\* binascii.a2b_base64 (non-strict): characters outside the alphabet are
\* skipped, padding ends the data, an incomplete quad is an error
RECURSIVE A2bFrom(_, _, _, _, _)
A2bFrom(cs, quad_pos, pads, leftchar, out) ==
    IF cs = <<>>
    THEN (IF quad_pos = 0 THEN [ok |-> TRUE, v |-> out] ELSE B64Bad)
    ELSE LET c == Head(cs) IN
         IF c = B64Pad
         THEN (IF quad_pos >= 2 /\ quad_pos + pads + 1 >= 4
               THEN [ok |-> TRUE, v |-> out]
               ELSE A2bFrom(Tail(cs), quad_pos,
                            IF quad_pos >= 2 THEN pads + 1 ELSE pads,
                            leftchar, out))
         ELSE IF ~IsB64Char(c)
         THEN A2bFrom(Tail(cs), quad_pos, pads, leftchar, out)
         ELSE LET x == B64Index(c) IN
              IF quad_pos = 0
              THEN A2bFrom(Tail(cs), 1, 0, x, out)
              ELSE IF quad_pos = 1
              THEN A2bFrom(Tail(cs), 2, 0, x % 16,
                           Append(out, leftchar * 4 + (x \div 16)))
              ELSE IF quad_pos = 2
              THEN A2bFrom(Tail(cs), 3, 0, x % 4,
                           Append(out, leftchar * 16 + (x \div 4)))
              ELSE A2bFrom(Tail(cs), 0, 0, 0, Append(out, leftchar * 64 + x))

\* base64.decodebytes
DecodeBytes(cs) == A2bFrom(cs, 0, 0, 0, <<>>)

(***************************************************************************)
(* json.dumps (ensure_ascii, default separators)                           *)
(***************************************************************************)
JNull == [k |-> "null", b |-> FALSE, n |-> 0, s |-> <<>>, items |-> <<>>]

JBool(b) == [k |-> "bool", b |-> b, n |-> 0, s |-> <<>>, items |-> <<>>]

JInt(n) == [k |-> "int", b |-> FALSE, n |-> n, s |-> <<>>, items |-> <<>>]

JStr(s) == [k |-> "str", b |-> FALSE, n |-> 0, s |-> s, items |-> <<>>]

JList(items) == [k |-> "list", b |-> FALSE, n |-> 0, s |-> <<>>, items |-> items]

\* items: a sequence of <<key text, value>>
JDict(items) == [k |-> "dict", b |-> FALSE, n |-> 0, s |-> <<>>, items |-> items]

HexDigit(d) == IF d < 10 THEN 48 + d ELSE 87 + d

RECURSIVE NatToText(_)
NatToText(n) ==
    IF n < 10 THEN <<48 + n>> ELSE NatToText(n \div 10) \o <<48 + (n % 10)>>

IntToText(n) == IF n < 0 THEN <<45>> \o NatToText(0 - n) ELSE NatToText(n)

JsonEscapeChar(c) ==
    IF c = 34 THEN <<92, 34>>
    ELSE IF c = 92 THEN <<92, 92>>
    ELSE IF c = 10 THEN <<92, 110>>
    ELSE IF c \in 32..126 THEN <<c>>
    ELSE <<92, 117, HexDigit(c \div 4096), HexDigit((c \div 256) % 16),
           HexDigit((c \div 16) % 16), HexDigit(c % 16)>>

JsonString(s) ==
    <<34>> \o Concat([i \in DOMAIN s |-> JsonEscapeChar(s[i])]) \o <<34>>

RECURSIVE JsonDumps(_)
RECURSIVE JsonJoin(_, _)
JsonDumps(v) ==
    IF v.k = "null" THEN <<110, 117, 108, 108>>
    ELSE IF v.k = "bool" THEN (IF v.b THEN <<116, 114, 117, 101>> ELSE <<102, 97, 108, 115, 101>>)
    ELSE IF v.k = "int" THEN IntToText(v.n)
    ELSE IF v.k = "str" THEN JsonString(v.s)
    ELSE IF v.k = "list" THEN <<91>> \o JsonJoin(v.items, FALSE) \o <<93>>
    ELSE <<123>> \o JsonJoin(v.items, TRUE) \o <<125>>

\* the items separated by ", "; a dict item is written as "key": value
JsonJoin(items, isDict) ==
    IF items = <<>> THEN <<>>
    ELSE (IF isDict
          THEN JsonString(Head(items)[1]) \o <<58, 32>> \o JsonDumps(Head(items)[2])
          ELSE JsonDumps(Head(items)))
             \o (IF Len(items) > 1 THEN <<44, 32>> ELSE <<>>)
             \o JsonJoin(Tail(items), isDict)

(***************************************************************************)
(* Python dict: a sequence of <<key, value>> pairs with distinct keys      *)
(***************************************************************************)
DictKeys(d) == {d[i][1] : i \in DOMAIN d}

DictHas(d, k) == k \in DictKeys(d)

DictGet(d, k) == d[CHOOSE i \in DOMAIN d : d[i][1] = k][2]

\* d[k] = v : an existing key keeps its position, a new key goes last
DictSet(d, k, v) ==
    IF DictHas(d, k)
    THEN [i \in DOMAIN d |-> IF d[i][1] = k THEN <<k, v>> ELSE d[i]]
    ELSE Append(d, <<k, v>>)

\* {**a, **b}
RECURSIVE DictMerge(_, _)
DictMerge(a, b) ==
    IF b = <<>> THEN a
    ELSE DictMerge(DictSet(a, Head(b)[1], Head(b)[2]), Tail(b))

\* the ordered dicts with at most n keys drawn from K and values from V
DictsOver(K, V, n) ==
    {d \in SeqsUpTo(K \X V, n) : \A i, j \in DOMAIN d : d[i][1] = d[j][1] => i = j}

\* an Optional[dict] field of an event
NoneDict == [isNone |-> TRUE, items |-> <<>>]

SomeDict(d) == [isNone |-> FALSE, items |-> d]

\* `x or {}`
OrEmpty(x) == IF x.isNone \/ x.items = <<>> THEN <<>> ELSE x.items

\* a header or query value: a str, or a list of str (multi-value)
StrVal(s) == [t |-> "str", s |-> s, l |-> <<>>]

ListVal(l) == [t |-> "list", s |-> <<>>, l |-> l]

\* repr() of a list of plain str: ['a', 'b']
RECURSIVE ReprItems(_)
ReprItems(l) ==
    IF l = <<>> THEN <<>>
    ELSE <<39>> \o Head(l) \o <<39>>
             \o (IF Len(l) > 1 THEN <<44, 32>> ELSE <<>>) \o ReprItems(Tail(l))

\* str(value)
PyStr(v) == IF v.t = "str" THEN v.s ELSE <<91>> \o ReprItems(v.l) \o <<93>>

(***************************************************************************)
(* SQS batch dispatcher                                                    *)
(***************************************************************************)
MessageIds == {"m1", "m2", "m3"}

SqsBodies == {"", "b"}

SqsRecords == [messageId : MessageIds, body : SqsBodies]

\* A payload either has a "Records" list or cannot be parsed into records.
SqsEvents ==
    [hasRecords : {TRUE}, Records : SeqsUpTo(SqsRecords, MaxRecords)]
        \cup {[hasRecords |-> FALSE, Records |-> <<>>]}

NoIo == [built |-> FALSE, path |-> "", request_method |-> "", body |-> "",
         has_body |-> FALSE, sqs_message_id |-> ""]

\* LambdaSqsStandard.__init__ / get_body / has_body / context_specifics
LambdaSqsStandardIo(record, url, method) ==
    [built |-> TRUE, path |-> url, request_method |-> method,
     body |-> record.body, has_body |-> record.body # "",
     sqs_message_id |-> record.messageId]

NoReply == [returned |-> FALSE, keys |-> {}, batchItemFailures |-> <<>>]

EmptyReply == [returned |-> TRUE, keys |-> {}, batchItemFailures |-> <<>>]

FailureEnvelope(failures) ==
    [returned |-> TRUE, keys |-> {"batchItemFailures"},
     batchItemFailures |-> failures]

\* step 1: parse the payload into records, or fail for the whole invocation
ParseBatchBroken(ev) == "loop"
ParseBatch(ev) == IF ev.hasRecords THEN "loop" ELSE "fatal"

\* step 3: a caught error records the identifier of the failing record
RecordFailureBroken(failures, record) ==
    IF failures = <<>> THEN <<[itemIdentifier |-> record.messageId]>>
    ELSE failures
RecordFailure(failures, record) ==
    Append(failures, [itemIdentifier |-> record.messageId])

\* step 3: "do not abort the batch; continue to the next record"
AfterFailureAborts(idx, n) == n + 1
AfterFailure(idx, n) == idx + 1

\* step 3: the error is absorbed by the dispatcher
OnHandlerErrorPropagates == "fatal"
OnHandlerError == "loop"

\* step 4: the reply after the last record
BatchReplyAlwaysEnvelope(failures) == FailureEnvelope(failures)
BatchReply(failures) ==
    IF failures = <<>> THEN EmptyReply ELSE FailureEnvelope(failures)

SqsInit ==
    /\ sqs_pc = "idle"
    /\ sqs_event = [hasRecords |-> TRUE, Records |-> <<>>]
    /\ sqs_idx = 0
    /\ item_failures = <<>>
    /\ sqs_io = NoIo
    /\ sqs_invoked = <<>>
    /\ sqs_raised = {}
    /\ sqs_reply = NoReply

\* __call__(event, context): entry of one invocation
SqsCall ==
    /\ sqs_pc = "idle"
    /\ \E ev \in SqsEvents :
        /\ sqs_event' = ev
        /\ sqs_pc' = ParseBatch(ev)
    /\ sqs_idx' = 1
    /\ item_failures' = <<>>
    /\ sqs_io' = NoIo
    /\ sqs_invoked' = <<>>
    /\ sqs_raised' = {}
    /\ sqs_reply' = NoReply
    /\ UNCHANGED nonSqsVars

\* one loop iteration whose handler returns normally
SqsRecordOk ==
    /\ sqs_pc = "loop"
    /\ sqs_idx <= Len(sqs_event.Records)
    /\ sqs_io' = LambdaSqsStandardIo(sqs_event.Records[sqs_idx], "", "POST")
    /\ sqs_invoked' = Append(sqs_invoked, sqs_idx)
    /\ sqs_idx' = sqs_idx + 1
    /\ UNCHANGED <<sqs_pc, sqs_event, item_failures, sqs_raised, sqs_reply>>
    /\ UNCHANGED nonSqsVars

\* one loop iteration whose handler raises
SqsRecordRaise ==
    /\ sqs_pc = "loop"
    /\ sqs_idx <= Len(sqs_event.Records)
    /\ sqs_io' = LambdaSqsStandardIo(sqs_event.Records[sqs_idx], "", "POST")
    /\ sqs_invoked' = Append(sqs_invoked, sqs_idx)
    /\ sqs_raised' = sqs_raised \cup {sqs_idx}
    /\ sqs_pc' = OnHandlerError
    /\ item_failures' = RecordFailure(item_failures, sqs_event.Records[sqs_idx])
    /\ sqs_idx' = AfterFailure(sqs_idx, Len(sqs_event.Records))
    /\ UNCHANGED <<sqs_event, sqs_reply>>
    /\ UNCHANGED nonSqsVars

\* the return statement after the loop
SqsReturn ==
    /\ sqs_pc = "loop"
    /\ sqs_idx > Len(sqs_event.Records)
    /\ sqs_reply' = BatchReply(item_failures)
    /\ sqs_pc' = "done"
    /\ UNCHANGED <<sqs_event, sqs_idx, item_failures, sqs_io, sqs_invoked,
                   sqs_raised>>
    /\ UNCHANGED nonSqsVars

\* the invocation is over: its locals are gone and the Lambda runtime may
\* invoke the same context object again
SqsNextInvocation ==
    /\ sqs_pc \in {"done", "fatal"}
    /\ sqs_pc' = "idle"
    /\ sqs_event' = [hasRecords |-> TRUE, Records |-> <<>>]
    /\ sqs_idx' = 0
    /\ item_failures' = <<>>
    /\ sqs_io' = NoIo
    /\ sqs_invoked' = <<>>
    /\ sqs_raised' = {}
    /\ sqs_reply' = NoReply
    /\ UNCHANGED nonSqsVars

SqsNext ==
    \/ SqsCall
    \/ SqsRecordOk
    \/ SqsRecordRaise
    \/ SqsReturn
    \/ SqsNextInvocation

\* identifiers of the records whose handler raised, in record order
RECURSIVE FailedIdsFrom(_, _, _)
FailedIdsFrom(records, raised, i) ==
    IF i > Len(records) THEN <<>>
    ELSE (IF i \in raised THEN <<records[i].messageId>> ELSE <<>>)
             \o FailedIdsFrom(records, raised, i + 1)

ReplyIds == [i \in DOMAIN sqs_reply.batchItemFailures |->
                sqs_reply.batchItemFailures[i].itemIdentifier]

UniqueIds == IsInjective([i \in DOMAIN sqs_event.Records |->
                             sqs_event.Records[i].messageId])

SqsFailed == sqs_pc = "done" /\ sqs_raised # {}

\* C1: for a batch with unique messageIds the reply of a batch with failures
\* is the batchItemFailures envelope listing exactly the messageIds of the
\* raising records, in record order, without duplicates and without the id
\* of any record that succeeded.
C1_FailureReport ==
    (SqsFailed /\ UniqueIds) =>
        /\ sqs_reply.keys = {"batchItemFailures"}
        /\ DOMAIN sqs_reply.batchItemFailures[1] = {"itemIdentifier"}
        /\ ReplyIds = FailedIdsFrom(sqs_event.Records, sqs_raised, 1)
        /\ IsInjective(ReplyIds)
        /\ \A i \in DOMAIN sqs_event.Records :
               i \notin sqs_raised =>
                   sqs_event.Records[i].messageId \notin Range(ReplyIds)

C1_Witness ==
    /\ SqsFailed /\ UniqueIds
    /\ Len(sqs_event.Records) = 3
    /\ sqs_raised = {1, 3}

\* C2: the handler is invoked exactly once per record, in payload order,
\* whether or not it raised for earlier records.
C2_InvokedOncePerRecordInOrder ==
    /\ sqs_pc = "loop" => sqs_invoked = [i \in 1..(sqs_idx - 1) |-> i]
    /\ sqs_pc = "done" =>
           sqs_invoked = [i \in 1..Len(sqs_event.Records) |-> i]

C2_Witness ==
    /\ sqs_pc = "done"
    /\ Len(sqs_event.Records) = 3
    /\ sqs_raised = {1}
    /\ sqs_invoked = <<1, 2, 3>>

\* C3: an exception raised by the handler for a record never leaves the
\* dispatcher: an invocation with a parseable batch never ends in a raised
\* error, and once every record is handled the dispatcher returns a reply.
C3_HandlerErrorAbsorbed ==
    /\ sqs_event.hasRecords => sqs_pc # "fatal"
    /\ (sqs_pc = "done" /\ sqs_raised # {}) => sqs_reply.returned

C3_Witness ==
    /\ sqs_pc = "done"
    /\ sqs_raised = {1, 2}
    /\ sqs_reply.returned

\* C4: the reply carries the batchItemFailures envelope exactly when at
\* least one record failed; otherwise it is the empty reply.
C4_EnvelopeOnlyOnFailure ==
    sqs_pc = "done" =>
        /\ sqs_raised = {} => sqs_reply = EmptyReply
        /\ "batchItemFailures" \in sqs_reply.keys <=> sqs_raised # {}

C4_Witness ==
    /\ sqs_pc = "done"
    /\ Len(sqs_event.Records) = 2
    /\ sqs_raised = {}
    /\ sqs_reply = EmptyReply

\* C5: a payload that cannot be parsed into records fails the whole
\* invocation: no handler is invoked and no failure report is produced.
C5_MalformedBatchIsFatal ==
    (~sqs_event.hasRecords /\ sqs_pc # "idle") =>
        /\ sqs_pc = "fatal"
        /\ sqs_invoked = <<>>
        /\ ~sqs_reply.returned
        /\ sqs_reply.keys = {}

C5_Witness ==
    /\ ~sqs_event.hasRecords
    /\ sqs_pc = "fatal"

(***************************************************************************)
(* LambdaAPIGateway.__init__ / parse_event_v1                              *)
(***************************************************************************)
HeaderNames == {<<88>>, <<120>>, <<121>>}          \* "X", "x", "y"

SingleHeaderValues == {StrVal(<<115>>)}            \* "s"

MultiHeaderValues == {ListVal(<<(<<109>>)>>)}      \* ["m"]

QueryNames == {<<113>>, <<116>>}                   \* "q", "t"

SingleQueryValues == {StrVal(<<104>>)}             \* "h"

MultiQueryValues == {ListVal(<<(<<117>>)>>)}       \* ["u"]

HttpMethods == {<<103, 101, 116>>, <<80, 79, 83, 84>>}   \* "get", "POST"

OptionalDicts(S) == {NoneDict} \cup {SomeDict(d) : d \in S}

V1Events ==
    [httpMethod : HttpMethods,
     path : {<<47, 116>>},
     queryStringParameters :
         OptionalDicts(DictsOver(QueryNames, SingleQueryValues, MaxQuery)),
     multiValueQueryStringParameters :
         OptionalDicts(DictsOver(QueryNames, MultiQueryValues, MaxMultiQuery)),
     pathParameters :
         OptionalDicts(DictsOver({<<105, 100>>}, {StrVal(<<49>>)}, 1)),
     headers : DictsOver(HeaderNames, SingleHeaderValues, MaxHeaders),
     multiValueHeaders :
         DictsOver(HeaderNames, MultiHeaderValues, MaxMultiHeaders)]

NoV1Event ==
    [httpMethod |-> <<>>, path |-> <<>>, queryStringParameters |-> NoneDict,
     multiValueQueryStringParameters |-> NoneDict, pathParameters |-> NoneDict,
     headers |-> <<>>, multiValueHeaders |-> <<>>]

\* query_parameters = {**(single or {}), **(multi or {})}
MergeQuerySingleWins(single, multi) ==
    DictMerge(OrEmpty(multi), OrEmpty(single))
MergeQuery(single, multi) == DictMerge(OrEmpty(single), OrEmpty(multi))

\* for key, value in d.items(): request_headers[key.lower()] = str(value)
RECURSIVE LowerKeysInto(_, _)
LowerKeysInto(out, d) ==
    IF d = <<>> THEN out
    ELSE LowerKeysInto(DictSet(out, Lower(Head(d)[1]), StrVal(PyStr(Head(d)[2]))),
                       Tail(d))

\* request_headers of parse_event_v1
BuildHeadersV1(headers, multiValueHeaders) ==
    LowerKeysInto(<<>>, DictMerge(headers, multiValueHeaders))

GwIdle ==
    /\ gw_pc = "new"
    /\ gw_event = NoV1Event
    /\ request_method = <<>>
    /\ path = <<>>
    /\ query_parameters = <<>>
    /\ path_parameters = <<>>
    /\ request_headers = <<>>

\* LambdaAPIGateway(event, context) for a version 1.0 event
GwConstructV1 ==
    /\ gw_pc = "new"
    /\ \E ev \in V1Events :
        /\ gw_event' = ev
        /\ request_method' = Upper(ev.httpMethod)
        /\ path' = ev.path
        /\ query_parameters' =
               MergeQuery(ev.queryStringParameters,
                          ev.multiValueQueryStringParameters)
        /\ path_parameters' =
               IF OrEmpty(ev.pathParameters) # <<>>
               THEN ev.pathParameters.items ELSE <<>>
        /\ request_headers' = BuildHeadersV1(ev.headers, ev.multiValueHeaders)
    /\ gw_pc' = "built"
    /\ UNCHANGED nonGwVars

\* parse() rejects the event: __init__ raises ValueError, nothing is built
GwConstructInvalid ==
    /\ gw_pc = "new"
    /\ gw_pc' = "failed"
    /\ UNCHANGED <<gw_event, request_method, path, query_parameters,
                   path_parameters, request_headers>>
    /\ UNCHANGED nonGwVars

GwNext ==
    \/ GwConstructV1
    \/ GwConstructInvalid

IsLowerCase(s) == \A i \in DOMAIN s : s[i] \notin 65..90

\* C7: every key of the v1 request header map is lower-case, and when a
\* single-value and a multi-value header name the same header (compared
\* case-insensitively) the stored value is the multi-value entry's value.
C7_LowerKeysMultiWins ==
    gw_pc = "built" =>
        /\ \A k \in DictKeys(request_headers) : IsLowerCase(k)
        /\ \A k1 \in DictKeys(gw_event.headers),
              k2 \in DictKeys(gw_event.multiValueHeaders) :
               Lower(k1) = Lower(k2) =>
                   DictGet(request_headers, Lower(k1)) \in
                       {StrVal(PyStr(DictGet(gw_event.multiValueHeaders, k))) :
                           k \in {m \in DictKeys(gw_event.multiValueHeaders) :
                                     Lower(m) = Lower(k1)}}

\* C8: query_parameters is the union of queryStringParameters and
\* multiValueQueryStringParameters, the multi-value entry taking precedence
\* on every shared key, and it is an empty mapping when both are null.
C8_QueryUnionMultiWins ==
    gw_pc = "built" =>
        LET single == OrEmpty(gw_event.queryStringParameters)
            multi == OrEmpty(gw_event.multiValueQueryStringParameters)
        IN  /\ DictKeys(query_parameters) = DictKeys(single) \cup DictKeys(multi)
            /\ \A k \in DictKeys(multi) :
                   DictGet(query_parameters, k) = DictGet(multi, k)
            /\ \A k \in DictKeys(single) \ DictKeys(multi) :
                   DictGet(query_parameters, k) = DictGet(single, k)
            /\ (gw_event.queryStringParameters.isNone
                    /\ gw_event.multiValueQueryStringParameters.isNone)
                   => query_parameters = <<>>

C8_Witness ==
    /\ gw_pc = "built"
    /\ DictKeys(OrEmpty(gw_event.queryStringParameters)) = {<<113>>, <<116>>}
    /\ DictKeys(OrEmpty(gw_event.multiValueQueryStringParameters)) = {<<113>>}
    /\ DictGet(query_parameters, <<113>>) = ListVal(<<(<<117>>)>>)
    /\ DictGet(query_parameters, <<116>>) = StrVal(<<104>>)

(***************************************************************************)
(* LambdaAPIGateway.get_body                                               *)
(***************************************************************************)
TextChars == {65, 233, 123}                        \* "A", e-acute, "{"

Texts == SeqsUpTo(TextChars, MaxBody)

NoneText == [isNone |-> TRUE, s |-> <<>>]

SomeText(s) == [isNone |-> FALSE, s |-> s]

\* bodies that are not the base64 of a text: "6Q==" is the byte 0xE9
RawBodies == Texts \cup {<<54, 81, 61, 61>>}

\* the event's body with the way it was produced:
\*   "b64"   base64.b64encode of the text, flag set
\*   "mime"  base64.encodebytes of the text, flag set
\*   "plain" any body (or null), flag unset
\*   "raw"   any body (or null), flag set
BodyInputs ==
    {[origin |-> [kind |-> "b64", text |-> t],
      event |-> [body |-> SomeText(B64Encode(Utf8Encode(t))),
                 isBase64Encoded |-> TRUE]] : t \in Texts}
    \cup
    {[origin |-> [kind |-> "mime", text |-> t],
      event |-> [body |-> SomeText(EncodeBytes(Utf8Encode(t))),
                 isBase64Encoded |-> TRUE]] : t \in Texts}
    \cup
    {[origin |-> [kind |-> "plain", text |-> t],
      event |-> [body |-> SomeText(t), isBase64Encoded |-> FALSE]] :
        t \in RawBodies}
    \cup
    {[origin |-> [kind |-> "raw", text |-> t],
      event |-> [body |-> SomeText(t), isBase64Encoded |-> TRUE]] :
        t \in RawBodies}
    \cup
    {[origin |-> [kind |-> IF f THEN "raw" ELSE "plain", text |-> <<>>],
      event |-> [body |-> NoneText, isBase64Encoded |-> f]] : f \in BOOLEAN}

NoBodyRet == [kind |-> "none", value |-> NoneText]

Returned(v) == [kind |-> "return", value |-> v]

Raised == [kind |-> "raise", value |-> NoneText]

\* does get_body decode self._cached_body (line 89)?
NeedsDecode(ev) == ~ev.body.isNone /\ ev.isBase64Encoded

\* base64.decodebytes(body.encode("utf-8")).decode("utf-8"), or the error
DecodeBody(body) ==
    LET raw == DecodeBytes(Utf8Encode(body))
    IN  IF ~raw.ok THEN [ok |-> FALSE, v |-> <<>>] ELSE Utf8Decode(raw.v)

BodyInit ==
    /\ \E i \in BodyInputs :
        /\ body_event = i.event
        /\ body_origin = i.origin
    /\ cached_body = NoneText
    /\ body_was_cached = FALSE
    /\ body_ret = NoBodyRet
    /\ body_calls = 0
    /\ body_decodes = 0

BodyIdle ==
    /\ body_event = [body |-> NoneText, isBase64Encoded |-> FALSE]
    /\ body_origin = [kind |-> "plain", text |-> <<>>]
    /\ cached_body = NoneText
    /\ body_was_cached = FALSE
    /\ body_ret = NoBodyRet
    /\ body_calls = 0
    /\ body_decodes = 0

\* get_body(): the first call fills the cache and the body is returned
GetBodyFirst ==
    /\ body_calls < MaxCalls
    /\ ~body_was_cached
    /\ body_was_cached' = TRUE
    /\ body_calls' = body_calls + 1
    /\ IF NeedsDecode(body_event)
       THEN LET d == DecodeBody(body_event.body.s) IN
            /\ body_decodes' = body_decodes + 1
            /\ cached_body' = IF d.ok THEN SomeText(d.v) ELSE body_event.body
            /\ body_ret' = IF d.ok THEN Returned(SomeText(d.v)) ELSE Raised
       ELSE /\ body_decodes' = body_decodes
            /\ cached_body' = body_event.body
            /\ body_ret' = Returned(body_event.body)
    /\ UNCHANGED <<body_event, body_origin>>
    /\ UNCHANGED nonBodyVars

\* get_body(): a later call returns the cached value
GetBodyCached ==
    /\ body_calls < MaxCalls
    /\ body_was_cached
    /\ body_calls' = body_calls + 1
    /\ body_ret' = Returned(cached_body)
    /\ UNCHANGED <<body_event, body_origin, cached_body, body_was_cached,
                   body_decodes>>
    /\ UNCHANGED nonBodyVars

BodyNext ==
    \/ GetBodyFirst
    \/ GetBodyCached

\* C9: an event carrying the base64 encoding of a text body with
\* isBase64Encoded set yields get_body() equal to the text, and an event
\* with the flag unset yields its body field unchanged.
C9_Base64RoundTrip ==
    body_calls >= 1 =>
        /\ body_origin.kind \in {"b64", "mime"} =>
               body_ret = Returned(SomeText(body_origin.text))
        /\ ~body_event.isBase64Encoded => body_ret = Returned(body_event.body)

C9_Witness ==
    /\ body_calls = 1
    /\ body_origin = [kind |-> "b64", text |-> <<123, 233, 65>>]
    /\ body_event.body.s # body_origin.text
    /\ body_ret = Returned(SomeText(<<123, 233, 65>>))

\* C30: get_body is idempotent: over any number of calls on one adapter the
\* base64 decoding is applied at most once, and every call returns the same
\* value as the first call.
C30_GetBodyIdempotent ==
    [][body_calls >= 1 => (body_ret' = body_ret /\ body_decodes' = body_decodes)]_vars

(***************************************************************************)
(* LambdaAPIGateway.respond                                                *)
(***************************************************************************)
ContentTypeKey == <<99, 111, 110, 116, 101, 110, 116, 45, 116, 121, 112, 101>>                 \* "content-type"

\* "application/json; charset=UTF-8"
DefaultContentType ==
    <<97, 112, 112, 108, 105, 99, 97, 116, 105, 111, 110, 47, 106, 115, 111, 110,
      59, 32, 99, 104, 97, 114, 115, 101, 116, 61, 85, 84, 70, 45, 56>>

TextPlain == <<116, 101, 120, 116, 47, 112, 108, 97, 105, 110>>                    \* "text/plain"

ByteValues == {0, 65, 255}

StatusCodes == {200, 404}

BytesBody(b) == [t |-> "bytes", b |-> b, s |-> <<>>, j |-> JNull]

StrBody(s) == [t |-> "str", b |-> <<>>, s |-> s, j |-> JNull]

JsonBody(j) == [t |-> "json", b |-> <<>>, s |-> <<>>, j |-> j]

JsonScalars == {JNull, JBool(TRUE), JBool(FALSE), JInt(0), JInt(-12), JInt(404),
                JStr(<<>>), JStr(<<34, 233>>)}

\* the handler results that are neither bytes nor str
JsonValues ==
    JsonScalars
        \cup {JList(l) : l \in SeqsUpTo({JNull, JInt(404), JStr(<<34, 233>>)}, MaxItems)}
        \cup {JDict(<<>>), JDict(<<(<<<<115, 111, 109, 101>>, JStr(<<100, 97, 116, 97>>)>>)>>)}

ResponseBodies ==
    {BytesBody(b) : b \in SeqsUpTo(ByteValues, MaxBody)}
        \cup {StrBody(t) : t \in Texts}
        \cup {JsonBody(j) : j \in JsonValues}

\* is_base64 and final_body of respond (lines 65-73)
FinalBodyStrAsJson(body) ==
    IF body.t = "bytes"
    THEN [is_base64 |-> TRUE, final_body |-> Utf8Decode(EncodeBytes(body.b)).v]
    ELSE IF body.t = "str"
    THEN [is_base64 |-> FALSE, final_body |-> JsonDumps(JStr(body.s))]
    ELSE [is_base64 |-> FALSE, final_body |-> JsonDumps(body.j)]
FinalBody(body) ==
    IF body.t = "bytes"
    THEN [is_base64 |-> TRUE, final_body |-> Utf8Decode(EncodeBytes(body.b)).v]
    ELSE IF body.t = "str"
    THEN [is_base64 |-> FALSE, final_body |-> body.s]
    ELSE [is_base64 |-> FALSE, final_body |-> JsonDumps(body.j)]

NoRespReply == [returned |-> FALSE]

RespIdle ==
    /\ resp_pc = "open"
    /\ response_headers = <<>>
    /\ resp_body = StrBody(<<>>)
    /\ resp_status = 0
    /\ resp_reply = NoRespReply

\* the endpoint sets its own content type before the reply is built
HandlerSetsContentType ==
    /\ resp_pc = "open"
    /\ ~DictHas(response_headers, ContentTypeKey)
    /\ response_headers' = DictSet(response_headers, ContentTypeKey, TextPlain)
    /\ UNCHANGED <<resp_pc, resp_body, resp_status, resp_reply>>
    /\ UNCHANGED nonRespVars

\* respond(body, status_code)
Respond ==
    /\ resp_pc = "open"
    /\ \E body \in ResponseBodies, status_code \in StatusCodes :
        LET headers == IF DictHas(response_headers, ContentTypeKey)
                       THEN response_headers
                       ELSE DictSet(response_headers, ContentTypeKey,
                                    DefaultContentType)
            fb == FinalBody(body)
        IN  /\ resp_body' = body
            /\ resp_status' = status_code
            /\ response_headers' = headers
            /\ resp_reply' = [isBase64Encoded |-> fb.is_base64,
                              statusCode |-> status_code,
                              headers |-> headers,
                              body |-> fb.final_body]
    /\ resp_pc' = "replied"
    /\ UNCHANGED nonRespVars

RespNext ==
    \/ HandlerSetsContentType
    \/ Respond

\* C10: respond(body, status_code) returns exactly the keys statusCode,
\* headers, body and isBase64Encoded; statusCode is the given code;
\* isBase64Encoded is true, with a body that base64-decodes to the given
\* bytes, exactly when the given body is bytes; a str body is returned
\* unchanged and any other body JSON-encoded, both with the flag false.
C10_RespondEnvelope ==
    resp_pc = "replied" =>
        /\ DOMAIN resp_reply = {"statusCode", "headers", "body", "isBase64Encoded"}
        /\ resp_reply.statusCode = resp_status
        /\ resp_reply.isBase64Encoded <=> resp_body.t = "bytes"
        /\ resp_body.t = "bytes" =>
               DecodeBytes(Utf8Encode(resp_reply.body)) =
                   [ok |-> TRUE, v |-> resp_body.b]
        /\ resp_body.t = "str" => resp_reply.body = resp_body.s
        /\ resp_body.t = "json" => resp_reply.body = JsonDumps(resp_body.j)
        /\ resp_body = JsonBody(JDict(<<(<<<<115, 111, 109, 101>>, JStr(<<100, 97, 116, 97>>)>>)>>)) =>
               resp_reply.body = <<123, 34, 115, 111, 109, 101, 34, 58, 32, 34, 100, 97, 116, 97, 34, 125>>

C10_Witness ==
    /\ resp_pc = "replied"
    /\ resp_body = BytesBody(<<0, 255, 65>>)
    /\ resp_reply.isBase64Encoded
    /\ resp_reply.body = <<65, 80, 57, 66, 10>>
    /\ resp_reply.statusCode = 404

(***************************************************************************)
(* get_client_ip: LambdaAPIGateway, LambdaAPIGatewayV2, LambdaALB,         *)
(* LambdaAPIGatewayWebSocket                                               *)
(***************************************************************************)
XForwardedFor == <<120, 45, 102, 111, 114, 119, 97, 114, 100, 101, 100, 45, 102, 111, 114>>

Loopback == <<49, 50, 55, 46, 48, 46, 48, 46, 49>>                     \* "127.0.0.1"

IpAdapters == {"v1", "v2", "alb", "ws"}

\* "X-Forwarded-For", "x-forwarded-for", "host"
IpHeaderNames == {<<88, 45, 70, 111, 114, 119, 97, 114, 100, 101, 100, 45, 70, 111, 114>>, XForwardedFor, <<104, 111, 115, 116>>}

IpHeaderValues == {StrVal(<<56>>), StrVal(<<55>>)}          \* "8", "7"

SourceIps == {NoneText, SomeText(<<57>>), SomeText(<<54>>)} \* absent, "9", "6"

IpEvents ==
    [sourceIp : SourceIps,
     headers : DictsOver(IpHeaderNames, IpHeaderValues, MaxIpHeaders)]

NoIpRet == [kind |-> "none", value |-> NoneText]

\* InputOutput.get_request_header(name, silent) of the framework
GetRequestHeader(headers, name, silent) ==
    IF DictHas(headers, name) THEN Returned(SomeText(DictGet(headers, name).s))
    ELSE IF silent THEN Returned(SomeText(<<>>))
    ELSE Raised

\* LambdaAPIGateway.get_client_ip
ClientIpV1(ev, headers) ==
    IF ~ev.sourceIp.isNone THEN Returned(ev.sourceIp)
    ELSE GetRequestHeader(headers, XForwardedFor, TRUE)

\* LambdaAPIGatewayV2.get_client_ip, LambdaAPIGatewayWebSocket.get_client_ip
ClientIpV2(ev, headers) ==
    IF ~ev.sourceIp.isNone THEN Returned(ev.sourceIp)
    ELSE IF DictHas(headers, XForwardedFor)
            /\ DictGet(headers, XForwardedFor).s # <<>>
    THEN Returned(SomeText(DictGet(headers, XForwardedFor).s))
    ELSE Returned(SomeText(Loopback))

\* LambdaALB.get_client_ip; the default of `silent` is the framework's
ClientIpAlb(ev, headers, silent) ==
    GetRequestHeader(headers, XForwardedFor, silent)

IpIdle ==
    /\ ip_adapter = "none"
    /\ ip_event = [sourceIp |-> NoneText, headers |-> <<>>]
    /\ ip_headers = <<>>
    /\ ip_ret = NoIpRet

\* __init__ of one of the adapters: the header keys are lower-cased
IpConstruct ==
    /\ ip_adapter = "none"
    /\ \E a \in IpAdapters, ev \in IpEvents :
        /\ ip_adapter' = a
        \* an ALB event has no requestContext identity; the v1 event model
        \* (APIGatewayProxyEventModel) requires requestContext.identity.sourceIp
        /\ a = "alb" => ev.sourceIp.isNone
        /\ a = "v1" => ~ev.sourceIp.isNone
        /\ ip_event' = ev
        /\ ip_headers' = LowerKeysInto(<<>>, ev.headers)
    /\ UNCHANGED ip_ret
    /\ UNCHANGED nonIpVars

\* get_client_ip()
GetClientIp ==
    /\ ip_adapter # "none"
    /\ ip_ret = NoIpRet
    /\ \E silent \in BOOLEAN :
        ip_ret' = IF ip_adapter = "v1" THEN ClientIpV1(ip_event, ip_headers)
                  ELSE IF ip_adapter = "alb"
                  THEN ClientIpAlb(ip_event, ip_headers, silent)
                  ELSE ClientIpV2(ip_event, ip_headers)
    /\ UNCHANGED <<ip_adapter, ip_event, ip_headers>>
    /\ UNCHANGED nonIpVars

IpNext ==
    \/ IpConstruct
    \/ GetClientIp

\* C6: get_client_ip returns the identity source IP when the event carries
\* one, otherwise the x-forwarded-for request header when present,
\* otherwise "127.0.0.1".
C6_ClientIpResolution ==
    ip_ret # NoIpRet =>
        ip_ret = Returned(SomeText(
            IF ~ip_event.sourceIp.isNone THEN ip_event.sourceIp.s
            ELSE IF DictHas(ip_headers, XForwardedFor)
            THEN DictGet(ip_headers, XForwardedFor).s
            ELSE Loopback))

(***************************************************************************)
(* LambdaALB construction (input_outputs/lambda_alb.py)                    *)
(***************************************************************************)
MaxAlbHeaders == 2

\* the verbs of valid_methods (line 28)
valid_methods ==
    { <<68, 69, 76, 69, 84, 69>>,           \* "DELETE"
      <<71, 69, 84>>,                       \* "GET"
      <<72, 69, 65, 68>>,                   \* "HEAD"
      <<79, 80, 84, 73, 79, 78, 83>>,       \* "OPTIONS"
      <<80, 65, 84, 67, 72>>,               \* "PATCH"
      <<80, 79, 83, 84>>,                   \* "POST"
      <<80, 85, 84>> }                      \* "PUT"

\* verbs outside valid_methods: "TRACE", "CONNECT", "GETS", "PU" and ""
OtherVerbs ==
    { <<84, 82, 65, 67, 69>>, <<67, 79, 78, 78, 69, 67, 84>>,
      <<71, 69, 84, 83>>, <<80, 85>>, <<>> }

\* str.capitalize(): "Get"
Capitalize(s) ==
    [i \in DOMAIN s |-> IF i = 1 THEN UpperChar(s[i]) ELSE LowerChar(s[i])]

\* the httpMethod values an event may carry, in upper, lower and mixed case
AlbHttpMethods ==
    UNION {{v, Lower(v), Capitalize(v)} : v \in valid_methods \cup OtherVerbs}

AlbHeaderNames == {<<88>>, <<120>>, <<104>>}                \* "X", "x", "h"

AlbHeaderValues == {<<49>>, <<50>>}                         \* "1", "2"

AlbEvents ==
    [httpMethod : AlbHttpMethods,
     headers : DictsOver(AlbHeaderNames, AlbHeaderValues, MaxAlbHeaders)]

NoAlbEvent == [httpMethod |-> <<>>, headers |-> <<>>]

NoAlbError == [type |-> "none", message |-> <<>>]

\* "Unsupported HTTP method: "
UnsupportedPrefix ==
    <<85, 110, 115, 117, 112, 112, 111, 114, 116, 101, 100, 32, 72, 84, 84,
      80, 32, 109, 101, 116, 104, 111, 100, 58, 32>>

\* ValueError(f"Unsupported HTTP method: {http_method}")
UnsupportedMethod(http_method) ==
    [type |-> "ValueError", message |-> UnsupportedPrefix \o http_method]

\* http_method = self._event.httpMethod.upper()
AlbHttpMethodRaw(event) == event.httpMethod
AlbHttpMethod(event) == Upper(event.httpMethod)

\* for key, value in headers.items(): self._request_headers[key.lower()] = value
RECURSIVE AlbLowerKeysInto(_, _)
AlbLowerKeysInto(out, d) ==
    IF d = <<>> THEN out
    ELSE AlbLowerKeysInto(DictSet(out, Lower(Head(d)[1]), Head(d)[2]), Tail(d))

AlbIdle ==
    /\ alb_pc = "new"
    /\ alb_event = NoAlbEvent
    /\ alb_request_method = NoneText
    /\ alb_headers = NoneDict
    /\ alb_error = NoAlbError

\* LambdaALB(event, context)
AlbConstruct ==
    /\ alb_pc = "new"
    /\ \E ev \in AlbEvents :
        /\ alb_event' = ev
        /\ IF AlbHttpMethod(ev) \in valid_methods
           THEN /\ alb_pc' = "built"
                /\ alb_request_method' = SomeText(AlbHttpMethod(ev))
                /\ alb_headers' = SomeDict(AlbLowerKeysInto(<<>>, ev.headers))
                /\ alb_error' = NoAlbError
           ELSE /\ alb_pc' = "failed"
                /\ alb_request_method' = NoneText
                /\ alb_headers' = NoneDict
                /\ alb_error' = UnsupportedMethod(AlbHttpMethod(ev))
    /\ UNCHANGED nonAlbVars

AlbNext == AlbConstruct

\* C11: constructing the ALB adapter succeeds, with the request method equal
\* to the upper-cased httpMethod, exactly when that upper-cased verb is one of
\* DELETE, GET, HEAD, OPTIONS, PATCH, POST, PUT; for any other verb it fails
\* with the unsupported-method ValueError and no request is produced.
C11_AlbMethodGate ==
    alb_pc # "new" =>
        LET verb == Upper(alb_event.httpMethod)
            supported ==
                verb \in { <<68, 69, 76, 69, 84, 69>>, <<71, 69, 84>>,
                           <<72, 69, 65, 68>>, <<79, 80, 84, 73, 79, 78, 83>>,
                           <<80, 65, 84, 67, 72>>, <<80, 79, 83, 84>>,
                           <<80, 85, 84>> }
        IN  /\ (alb_pc = "built") <=> supported
            /\ supported =>
                   /\ alb_request_method = SomeText(verb)
                   /\ alb_error.type = "none"
            /\ ~supported =>
                   /\ alb_pc = "failed"
                   /\ alb_error.type = "ValueError"
                   /\ alb_error.message = UnsupportedPrefix \o verb
                   /\ alb_request_method.isNone
                   /\ alb_headers.isNone

\* a lower-case "patch" was accepted as PATCH
C11_Witness ==
    /\ alb_pc = "built"
    /\ alb_event.httpMethod = <<112, 97, 116, 99, 104>>
    /\ alb_request_method = SomeText(<<80, 65, 84, 67, 72>>)

(***************************************************************************)
(* json.loads for null, booleans, integers, strings, arrays and objects    *)
(* (fractions and exponents are not modelled)                              *)
(***************************************************************************)
JsonFail == [ok |-> FALSE, v |-> JNull, next |-> 0]

JsonOk(v, next) == [ok |-> TRUE, v |-> v, next |-> next]

\* the code point at position i, -1 past the end
At(t, i) == IF i \in 1..Len(t) THEN t[i] ELSE -1

Matches(t, i, lit) ==
    /\ i + Len(lit) - 1 <= Len(t)
    /\ SubSeq(t, i, i + Len(lit) - 1) = lit

RECURSIVE SkipWs(_, _)
SkipWs(t, i) == IF At(t, i) \in {32, 9, 10, 13} THEN SkipWs(t, i + 1) ELSE i

IsDigit(c) == c \in 48..57

IsHex(c) == c \in 48..57 \/ c \in 97..102 \/ c \in 65..70

HexValue(c) == IF c \in 48..57 THEN c - 48 ELSE IF c \in 97..102 THEN c - 87 ELSE c - 55

RECURSIVE ScanDigits(_, _)
ScanDigits(t, i) == IF IsDigit(At(t, i)) THEN ScanDigits(t, i + 1) ELSE i

RECURSIVE TextToNat(_)
TextToNat(s) ==
    IF s = <<>> THEN 0 ELSE TextToNat(SubSeq(s, 1, Len(s) - 1)) * 10 + (s[Len(s)] - 48)

\* the character a backslash escape stands for, -1 for an invalid escape
Unescape(c) ==
    IF c \in {34, 92, 47} THEN c
    ELSE IF c = 98 THEN 8
    ELSE IF c = 102 THEN 12
    ELSE IF c = 110 THEN 10
    ELSE IF c = 114 THEN 13
    ELSE IF c = 116 THEN 9
    ELSE -1

\* the body of a string, i is the position after the opening quote
RECURSIVE ScanString(_, _, _)
ScanString(t, i, out) ==
    IF At(t, i) = -1 \/ At(t, i) < 32 THEN JsonFail
    ELSE IF t[i] = 34 THEN JsonOk(JStr(out), i + 1)
    ELSE IF t[i] # 92 THEN ScanString(t, i + 1, Append(out, t[i]))
    ELSE IF At(t, i + 1) = 117
         THEN IF \A k \in 2..5 : IsHex(At(t, i + k))
              THEN ScanString(t, i + 6,
                       Append(out, HexValue(t[i + 2]) * 4096 + HexValue(t[i + 3]) * 256
                                     + HexValue(t[i + 4]) * 16 + HexValue(t[i + 5])))
              ELSE JsonFail
         ELSE IF Unescape(At(t, i + 1)) = -1 THEN JsonFail
              ELSE ScanString(t, i + 2, Append(out, Unescape(t[i + 1])))

\* -?(0|[1-9][0-9]*)
ScanInt(t, i) ==
    LET first == IF At(t, i) = 45 THEN i + 1 ELSE i
        last == IF At(t, first) = 48 THEN first + 1 ELSE ScanDigits(t, first)
        n == TextToNat(SubSeq(t, first, last - 1))
    IN  IF ~IsDigit(At(t, first)) THEN JsonFail
        ELSE JsonOk(JInt(IF first = i THEN n ELSE 0 - n), last)

RECURSIVE ScanValue(_, _)
RECURSIVE ScanElements(_, _, _)
RECURSIVE ScanMembers(_, _, _)
\* one JSON value starting exactly at position i
ScanValue(t, i) ==
    IF At(t, i) = 34 THEN ScanString(t, i + 1, <<>>)
    ELSE IF Matches(t, i, <<110, 117, 108, 108>>) THEN JsonOk(JNull, i + 4)
    ELSE IF Matches(t, i, <<116, 114, 117, 101>>) THEN JsonOk(JBool(TRUE), i + 4)
    ELSE IF Matches(t, i, <<102, 97, 108, 115, 101>>) THEN JsonOk(JBool(FALSE), i + 5)
    ELSE IF At(t, i) = 91
         THEN IF At(t, SkipWs(t, i + 1)) = 93
              THEN JsonOk(JList(<<>>), SkipWs(t, i + 1) + 1)
              ELSE ScanElements(t, SkipWs(t, i + 1), <<>>)
    ELSE IF At(t, i) = 123
         THEN IF At(t, SkipWs(t, i + 1)) = 125
              THEN JsonOk(JDict(<<>>), SkipWs(t, i + 1) + 1)
              ELSE ScanMembers(t, SkipWs(t, i + 1), <<>>)
    ELSE ScanInt(t, i)

\* the elements of an array, i is the position of the next element
ScanElements(t, i, acc) ==
    LET r == ScanValue(t, i)
        j == SkipWs(t, r.next)
    IN  IF ~r.ok THEN JsonFail
        ELSE IF At(t, j) = 93 THEN JsonOk(JList(Append(acc, r.v)), j + 1)
        ELSE IF At(t, j) = 44 THEN ScanElements(t, SkipWs(t, j + 1), Append(acc, r.v))
        ELSE JsonFail

\* the members of an object, i is the position of the next key; a repeated
\* key keeps its last value
ScanMembers(t, i, acc) ==
    LET key == IF At(t, i) = 34 THEN ScanString(t, i + 1, <<>>) ELSE JsonFail
        colon == SkipWs(t, key.next)
        r == ScanValue(t, SkipWs(t, colon + 1))
        j == SkipWs(t, r.next)
    IN  IF ~key.ok \/ At(t, colon) # 58 THEN JsonFail
        ELSE IF ~r.ok THEN JsonFail
        ELSE IF At(t, j) = 125 THEN JsonOk(JDict(DictSet(acc, key.v.s, r.v)), j + 1)
        ELSE IF At(t, j) = 44
             THEN ScanMembers(t, SkipWs(t, j + 1), DictSet(acc, key.v.s, r.v))
        ELSE JsonFail

\* json.loads(text): ok is FALSE for a JSONDecodeError
JsonLoads(text) ==
    LET r == ScanValue(text, SkipWs(text, 1))
    IN  IF r.ok /\ SkipWs(text, r.next) = Len(text) + 1 THEN r ELSE JsonFail

(***************************************************************************)
(* LambdaSns (input_outputs/lambda_sns.py)                                 *)
(***************************************************************************)
\* the value of Records[0].Sns.Message: a str, or another JSON type
StrMessage(s) == [t |-> "str", s |-> s]

OtherMessage(t) == [t |-> t, s |-> <<>>]

NoMessage == OtherMessage("absent")

\* the messages that json.dumps produces
SnsJsonValues ==
    { JNull, JBool(TRUE), JInt(0), JInt(-12), JStr(<<>>), JStr(<<34, 233>>),
      JList(<<>>), JList(<<JInt(404), JNull>>), JDict(<<>>),
      JDict(<< <<(<<110, 97, 109, 101>>), JStr(<<66, 111, 98>>)>> >>) }

\* hand-written messages: ' [ ] ', '{"a": 1, "a": 2}', '{ "n" : [ true ] }',
\* and the malformed '', '{', 'Bob', '[1,]', '{"a"}', '1 2', "'a'", '-'
SnsOtherTexts ==
    { <<32, 91, 32, 93, 32>>,
      <<123, 34, 97, 34, 58, 32, 49, 44, 32, 34, 97, 34, 58, 32, 50, 125>>,
      <<123, 32, 34, 110, 34, 32, 58, 32, 91, 32, 116, 114, 117, 101, 32, 93,
        32, 125>>,
      <<>>, <<123>>, <<66, 111, 98>>, <<91, 49, 44, 93>>,
      <<123, 34, 97, 34, 125>>, <<49, 32, 50>>, <<39, 97, 39>>, <<45>> }

SnsMessages ==
    {StrMessage(JsonDumps(v)) : v \in SnsJsonValues}
        \cup {StrMessage(s) : s \in SnsOtherTexts}
        \cup {OtherMessage("null"), OtherMessage("int"), OtherMessage("dict")}

\* the records of the event: with or without "Sns", with or without "Message"
SnsRecords ==
    {[hasSns |-> FALSE, hasMessage |-> FALSE, Message |-> NoMessage],
     [hasSns |-> TRUE, hasMessage |-> FALSE, Message |-> NoMessage]}
        \cup {[hasSns |-> TRUE, hasMessage |-> TRUE, Message |-> m] : m \in SnsMessages}

SnsEvents ==
    {[hasRecords |-> FALSE, Records |-> <<>>], [hasRecords |-> TRUE, Records |-> <<>>]}
        \cup {[hasRecords |-> TRUE, Records |-> <<r>>] : r \in SnsRecords}

NoSnsEvent == [hasRecords |-> FALSE, Records |-> <<>>]

\* "POST" (the default), "post" and "get"
SnsRequestMethods == {<<80, 79, 83, 84>>, <<112, 111, 115, 116>>, <<103, 101, 116>>}

NoneJson == [isNone |-> TRUE, v |-> JNull]

SomeJson(v) == [isNone |-> FALSE, v |-> v]

NoSnsData == [kind |-> "none", value |-> NoneJson, error |-> "none"]

SnsReturned(v) == [kind |-> "return", value |-> SomeJson(v), error |-> "none"]

SnsRaised(e) == [kind |-> "raise", value |-> NoneJson, error |-> e]

\* record = event["Records"][0]["Sns"]["Message"]
SnsLookup(event) ==
    IF ~event.hasRecords THEN [error |-> "KeyError", record |-> NoMessage]
    ELSE IF event.Records = <<>> THEN [error |-> "IndexError", record |-> NoMessage]
    ELSE IF ~event.Records[1].hasSns THEN [error |-> "KeyError", record |-> NoMessage]
    ELSE IF ~event.Records[1].hasMessage THEN [error |-> "KeyError", record |-> NoMessage]
    ELSE [error |-> "none", record |-> event.Records[1].Message]

\* json.loads(record): a TypeError for anything but a str
SnsLoads(record) ==
    IF record.t # "str" THEN [error |-> "TypeError", v |-> JNull]
    ELSE IF ~JsonLoads(record.s).ok THEN [error |-> "JSONDecodeError", v |-> JNull]
    ELSE [error |-> "none", v |-> JsonLoads(record.s).v]

\* the body of the try block (lines 33-34)
SnsExtract(event) ==
    IF SnsLookup(event).error # "none"
    THEN [error |-> SnsLookup(event).error, v |-> JNull]
    ELSE SnsLoads(SnsLookup(event).record)

\* except (KeyError, IndexError, json.JSONDecodeError): raise ClientError(...)
SnsCaught == {"KeyError", "IndexError", "JSONDecodeError"}

SnsInitError(e) == IF e \in SnsCaught THEN "ClientError" ELSE e

SnsIdle ==
    /\ sns_pc = "new"
    /\ sns_event = NoSnsEvent
    /\ sns_request_method = <<>>
    /\ sns_record = NoneJson
    /\ sns_private_record = NoneJson
    /\ sns_error = "none"
    /\ sns_request_data = NoSnsData
    /\ sns_handler_calls = 0

\* LambdaSns(event, context, url, request_method)
SnsConstruct ==
    /\ sns_pc = "new"
    /\ \E ev \in SnsEvents, method \in SnsRequestMethods :
        /\ sns_event' = ev
        /\ sns_request_method' = Upper(method)
        /\ IF SnsExtract(ev).error = "none"
           THEN /\ sns_pc' = "built"
                /\ sns_record' = SomeJson(SnsExtract(ev).v)
                /\ sns_error' = "none"
           ELSE /\ sns_pc' = "failed"
                /\ sns_record' = NoneJson
                /\ sns_error' = SnsInitError(SnsExtract(ev).error)
    /\ UNCHANGED <<sns_private_record, sns_request_data, sns_handler_calls>>
    /\ UNCHANGED nonSnsVars

\* the request_data property: return self._record
SnsRequestData ==
    /\ sns_pc = "built"
    /\ sns_request_data' =
           IF sns_private_record.isNone THEN SnsRaised("AttributeError")
           ELSE SnsReturned(sns_private_record.v)
    /\ UNCHANGED <<sns_pc, sns_event, sns_request_method, sns_record,
                   sns_private_record, sns_error, sns_handler_calls>>
    /\ UNCHANGED nonSnsVars

\* the context hands the constructed adapter to the handler
SnsInvokeHandler ==
    /\ sns_pc = "built"
    /\ sns_handler_calls = 0
    /\ sns_handler_calls' = 1
    /\ UNCHANGED <<sns_pc, sns_event, sns_request_method, sns_record,
                   sns_private_record, sns_error, sns_request_data>>
    /\ UNCHANGED nonSnsVars

SnsNext == SnsConstruct \/ SnsRequestData \/ SnsInvokeHandler

\* the Message of Records[0].Sns is present, a str and valid serialized JSON
SnsValidMessage(event) ==
    /\ event.hasRecords
    /\ event.Records # <<>>
    /\ event.Records[1].hasSns
    /\ event.Records[1].hasMessage
    /\ event.Records[1].Message.t = "str"
    /\ JsonLoads(event.Records[1].Message.s).ok

\* C12: an SNS event whose Records[0].Sns.Message is missing or is not valid
\* serialized JSON makes the construction fail with a ClientError before any
\* handler is invoked; a valid JSON message makes the construction succeed
\* with request_data equal to the decoded message.
C12_SnsMessageGate ==
    sns_pc # "new" =>
        IF SnsValidMessage(sns_event)
        THEN /\ sns_pc = "built"
             /\ sns_request_data.kind # "none" =>
                    sns_request_data =
                        SnsReturned(JsonLoads(sns_event.Records[1].Message.s).v)
        ELSE /\ sns_pc = "failed"
             /\ sns_error = "ClientError"
             /\ sns_handler_calls = 0

(***************************************************************************)
(* Step Functions: the adapter (input_outputs/lambda_step_function.py) and *)
(* the context that invokes it (contexts/lambda_step_function.py)          *)
(***************************************************************************)
MaxSfKeys == 2
MaxInvocations == 2

SfEventKeys == {<<65>>, <<66>>}                             \* "A", "B"

SfEnvNames == {<<65>>, <<88>>}                              \* "A", "X"

\* None, 123 and "123"
SfValues == {JNull, JInt(123), JStr(<<49, 50, 51>>)}

\* the events: dicts over SfEventKeys, "A" first
SfEvents ==
    {e \in DictsOver(SfEventKeys, SfValues, 2) : Len(e) = 2 => e[1][1] = <<65>>}

\* environment_keys: None, a list, a dict or a callable
SfNoKeys == [mode |-> "none", list |-> <<>>, dict |-> <<>>, fn |-> "none"]

SfListKeys(l) == [mode |-> "list", list |-> l, dict |-> <<>>, fn |-> "none"]

SfDictKeys(d) == [mode |-> "dict", list |-> <<>>, dict |-> d, fn |-> "none"]

SfCallableKeys(fn) == [mode |-> "callable", list |-> <<>>, dict |-> <<>>, fn |-> fn]

\* the extractor functions of the tests: returning None, "not a dict", a
\* list, {"X": event.get("A")}, and the event itself
SfExtractors == {"returns_none", "returns_str", "returns_list", "pick_a", "copy_event"}

SfKeyConfigs ==
    {SfNoKeys}
        \cup {SfListKeys(l) : l \in SeqsUpTo(SfEventKeys, MaxSfKeys)}
        \cup {SfDictKeys(d) : d \in DictsOver(SfEventKeys, SfEnvNames, MaxSfKeys)}
        \cup {SfCallableKeys(fn) : fn \in SfExtractors}

\* the Environment before the first invocation: empty, or holding A = "old"
SfInitialEnvs == {<<>>, << <<(<<65>>), JStr(<<111, 108, 100>>)>> >>}

NoSfError == [type |-> "none", key |-> <<>>, returned |-> "none"]

\* KeyError(f"environment_keys requested a key called `{event_key}` ...")
SfKeyErrorNamesEnvName(event_key, env_name) ==
    [type |-> "KeyError", key |-> env_name, returned |-> "none"]
SfKeyError(event_key, env_name) ==
    [type |-> "KeyError", key |-> event_key, returned |-> "none"]

\* TypeError(f"... must return a dictionary, but returned {type(result).__name__}")
SfTypeError(result) == [type |-> "TypeError", key |-> <<>>, returned |-> result.type]

\* di.call_function(self.environment_keys, event=self.event)
SfCallFunction(fn, event) ==
    IF fn = "returns_none" THEN [type |-> "NoneType", items |-> <<>>]
    ELSE IF fn = "returns_str" THEN [type |-> "str", items |-> <<>>]
    ELSE IF fn = "returns_list" THEN [type |-> "list", items |-> <<>>]
    ELSE IF fn = "pick_a"
         THEN [type |-> "dict",
               items |-> << <<(<<88>>), IF DictHas(event, <<65>>)
                                        THEN DictGet(event, <<65>>) ELSE JNull>> >>]
    ELSE [type |-> "dict", items |-> event]

\* isinstance(result, dict)
SfIsNotNone(result) == result.type # "NoneType"
SfIsDict(result) == result.type = "dict"

\* self.event[key]
SfEventValueAsStr(event, key) ==
    LET v == DictGet(event, key)
    IN  IF v.k = "int" THEN JStr(IntToText(v.n))
        ELSE IF v.k = "null" THEN JStr(<<78, 111, 110, 101>>)
        ELSE v
SfEventValue(event, key) == DictGet(event, key)

SfExtracted(extracted) == [error |-> NoSfError, extracted |-> extracted]

SfExtractFailed(error) == [error |-> error, extracted |-> <<>>]

\* the loop over the (event_key, env_name) pairs of lines 135-140; the list
\* mode (lines 142-147) is the same loop over the pairs (key, key)
RECURSIVE SfExtractPairsLenient(_, _, _)
RECURSIVE SfExtractPairs(_, _, _)
SfExtractPairsLenient(pairs, event, extracted) ==
    IF pairs = <<>> THEN SfExtracted(extracted)
    ELSE IF ~DictHas(event, Head(pairs)[1])
         THEN SfExtractPairsLenient(Tail(pairs), event, extracted)
         ELSE SfExtractPairsLenient(Tail(pairs), event,
                  DictSet(extracted, Head(pairs)[2],
                          SfEventValue(event, Head(pairs)[1])))
SfExtractPairs(pairs, event, extracted) ==
    IF pairs = <<>> THEN SfExtracted(extracted)
    ELSE IF ~DictHas(event, Head(pairs)[1])
         THEN SfExtractFailed(SfKeyError(Head(pairs)[1], Head(pairs)[2]))
         ELSE SfExtractPairs(Tail(pairs), event,
                  DictSet(extracted, Head(pairs)[2],
                          SfEventValue(event, Head(pairs)[1])))

\* lines 124-147: the three modes of a configured environment_keys
SfExtractConfigured(keys, event) ==
    IF keys.mode = "callable"
    THEN IF ~SfIsDict(SfCallFunction(keys.fn, event))
         THEN SfExtractFailed(SfTypeError(SfCallFunction(keys.fn, event)))
         ELSE SfExtracted(SfCallFunction(keys.fn, event).items)
    ELSE IF keys.mode = "dict" THEN SfExtractPairs(keys.dict, event, <<>>)
    ELSE SfExtractPairs([i \in DOMAIN keys.list |-> <<keys.list[i], keys.list[i]>>],
                        event, <<>>)

\* lines 119-147: nothing is extracted when environment_keys is None
SfExtractEverything(keys, event) ==
    IF keys.mode = "none" THEN SfExtracted(event)
    ELSE SfExtractConfigured(keys, event)
SfExtract(keys, event) ==
    IF keys.mode = "none" THEN SfExtracted(<<>>)
    ELSE SfExtractConfigured(keys, event)

\* environment.set(key, value)
EnvironmentSetDefault(env, key, value) ==
    IF DictHas(env, key) THEN env ELSE DictSet(env, key, value)
EnvironmentSet(env, key, value) == DictSet(env, key, value)

\* for key, value in extracted.items(): environment.set(key, value)
RECURSIVE SfSetAll(_, _)
SfSetAll(env, extracted) ==
    IF extracted = <<>> THEN env
    ELSE SfSetAll(EnvironmentSet(env, Head(extracted)[1], Head(extracted)[2]),
                  Tail(extracted))

\* respond(body, status_code): bytes are decoded, anything else is returned
SfRespondRaw(body) == [kind |-> "return", body |-> body]
SfRespond(body) ==
    IF body.t = "bytes"
    THEN IF Utf8Decode(body.b).ok
         THEN [kind |-> "return", body |-> StrBody(Utf8Decode(body.b).v)]
         ELSE [kind |-> "raise", body |-> StrBody(<<>>)]
    ELSE [kind |-> "return", body |-> body]

NoSfReply == [kind |-> "none", body |-> StrBody(<<>>)]

\* the handler results: the request data, a str, and bytes that are and are
\* not UTF-8 (b"A\xc3\xa9" and b"\xff")
SfResults(event) ==
    {JsonBody(JDict(event)), StrBody(<<65>>), BytesBody(<<65, 195, 169>>),
     BytesBody(<<255>>)}

\* a context that was just created, with its environment_keys
SfInit ==
    /\ sf_pc = "idle"
    /\ sf_keys \in SfKeyConfigs
    /\ sf_event = <<>>
    /\ sf_env \in SfInitialEnvs
    /\ sf_env_before = <<>>
    /\ sf_error = NoSfError
    /\ sf_body = StrBody(<<>>)
    /\ sf_status = 200
    /\ sf_reply = NoSfReply
    /\ sf_invocations = 0

SfIdle ==
    /\ sf_pc = "idle"
    /\ sf_keys = SfNoKeys
    /\ sf_event = <<>>
    /\ sf_env = <<>>
    /\ sf_env_before = <<>>
    /\ sf_error = NoSfError
    /\ sf_body = StrBody(<<>>)
    /\ sf_status = 200
    /\ sf_reply = NoSfReply
    /\ sf_invocations = 0

\* __call__(event, context): the adapter is built for the event
SfConstruct ==
    /\ sf_pc = "idle"
    /\ sf_invocations < MaxInvocations
    /\ \E ev \in SfEvents : sf_event' = ev
    /\ sf_pc' = "built"
    /\ sf_invocations' = sf_invocations + 1
    /\ UNCHANGED <<sf_keys, sf_env, sf_env_before, sf_error, sf_body, sf_status,
                   sf_reply>>
    /\ UNCHANGED nonSfVars

\* inject_extra_environment_variables(environment, di)
SfInject ==
    /\ sf_pc = "built"
    /\ sf_env_before' = sf_env
    /\ sf_error' = SfExtract(sf_keys, sf_event).error
    /\ IF SfExtract(sf_keys, sf_event).error.type = "none"
       THEN /\ sf_pc' = "injected"
            /\ sf_env' = SfSetAll(sf_env, SfExtract(sf_keys, sf_event).extracted)
       ELSE /\ sf_pc' = "failed"
            /\ sf_env' = sf_env
    /\ UNCHANGED <<sf_keys, sf_event, sf_body, sf_status, sf_reply, sf_invocations>>
    /\ UNCHANGED nonSfVars

\* execute_application: the handler returns a result, respond() makes the reply
SfExecute ==
    /\ sf_pc = "injected"
    /\ \E body \in SfResults(sf_event), status \in StatusCodes :
        /\ sf_body' = body
        /\ sf_status' = status
        /\ sf_reply' = SfRespond(body)
    /\ sf_pc' = "replied"
    /\ UNCHANGED <<sf_keys, sf_event, sf_env, sf_env_before, sf_error, sf_invocations>>
    /\ UNCHANGED nonSfVars

\* the invocation is over: only the context and its Environment remain
SfReturn ==
    /\ sf_pc \in {"failed", "replied"}
    /\ sf_pc' = "idle"
    /\ sf_event' = <<>>
    /\ sf_env_before' = <<>>
    /\ sf_error' = NoSfError
    /\ sf_body' = StrBody(<<>>)
    /\ sf_status' = 200
    /\ sf_reply' = NoSfReply
    /\ UNCHANGED <<sf_keys, sf_env, sf_invocations>>
    /\ UNCHANGED nonSfVars

SfNext == SfConstruct \/ SfInject \/ SfExecute \/ SfReturn

\* the event keys a list or a rename mapping asks for
SfRequested(keys) ==
    IF keys.mode = "list" THEN Range(keys.list) ELSE DictKeys(keys.dict)

\* C13: in list mode and in rename-mapping mode, if any requested event key
\* is absent from the event the extraction fails with a KeyError whose
\* message names a missing key.
C13_MissingKeyNamed ==
    (sf_pc \in {"injected", "failed", "replied"} /\ sf_keys.mode \in {"list", "dict"}) =>
        LET missing == {k \in SfRequested(sf_keys) : ~DictHas(sf_event, k)}
        IN  missing # {} =>
                /\ sf_pc = "failed"
                /\ sf_error.type = "KeyError"
                /\ sf_error.key \in missing

\* the mapping {"A": "X", "B": "A"} met an event without "B"
C13_Witness ==
    /\ sf_pc = "failed"
    /\ sf_keys = SfDictKeys(<< <<(<<65>>), <<88>>>>, <<(<<66>>), <<65>>>> >>)
    /\ DictKeys(sf_event) = {<<65>>}
    /\ sf_error.key = <<66>>

\* C14 as stated: when every requested key exists, the extraction sets
\* environment[K] = event[K] for each K in list mode and
\* environment[name] = event[key] for each (key -> name) entry of the rename
\* mapping, every value unchanged in value and type.
C14_EveryEntryInjected ==
    (sf_pc \in {"injected", "replied"} /\ sf_keys.mode \in {"list", "dict"}) =>
        /\ \A i \in DOMAIN sf_keys.list :
               /\ DictHas(sf_env, sf_keys.list[i])
               /\ DictGet(sf_env, sf_keys.list[i]) = DictGet(sf_event, sf_keys.list[i])
        /\ \A i \in DOMAIN sf_keys.dict :
               /\ DictHas(sf_env, sf_keys.dict[i][2])
               /\ DictGet(sf_env, sf_keys.dict[i][2])
                      = DictGet(sf_event, sf_keys.dict[i][1])

\* C14 amended: as above, but when the rename mapping gives one name to
\* several event keys the name holds the value of the last of them.
C14_LastEntryPerNameInjected ==
    (sf_pc \in {"injected", "replied"} /\ sf_keys.mode \in {"list", "dict"}) =>
        /\ \A i \in DOMAIN sf_keys.list :
               /\ DictHas(sf_env, sf_keys.list[i])
               /\ DictGet(sf_env, sf_keys.list[i]) = DictGet(sf_event, sf_keys.list[i])
        /\ \A i \in DOMAIN sf_keys.dict :
               (\A j \in DOMAIN sf_keys.dict :
                    j > i => sf_keys.dict[j][2] # sf_keys.dict[i][2]) =>
                   /\ DictHas(sf_env, sf_keys.dict[i][2])
                   /\ DictGet(sf_env, sf_keys.dict[i][2])
                          = DictGet(sf_event, sf_keys.dict[i][1])

\* {"A": "X", "B": "A"} applied to {"A": None, "B": 123}
C14_Witness ==
    /\ sf_pc = "injected"
    /\ sf_keys = SfDictKeys(<< <<(<<65>>), <<88>>>>, <<(<<66>>), <<65>>>> >>)
    /\ sf_event = << <<(<<65>>), JNull>>, <<(<<66>>), JInt(123)>> >>
    /\ DictGet(sf_env, <<88>>) = JNull
    /\ DictGet(sf_env, <<65>>) = JInt(123)

\* C15: in computed-function mode, if the function returns anything that is
\* not a mapping (None included) the extraction fails with a TypeError that
\* names the returned type, and nothing is set in the environment.
C15_NonMappingRejected ==
    (/\ sf_pc \in {"injected", "failed", "replied"}
     /\ sf_keys.mode = "callable"
     /\ SfCallFunction(sf_keys.fn, sf_event).type # "dict") =>
        /\ sf_pc = "failed"
        /\ sf_error.type = "TypeError"
        /\ sf_error.returned = SfCallFunction(sf_keys.fn, sf_event).type
        /\ sf_env = sf_env_before

\* the extractor returned "not a dict" while the Environment held A = "old"
C15_Witness ==
    /\ sf_pc = "failed"
    /\ sf_keys = SfCallableKeys("returns_str")
    /\ sf_error.returned = "str"
    /\ DictHas(sf_env, <<65>>)

\* C16: the adapter does not apply the extracted overlay itself: no operation
\* of the adapter modifies the environment, merging is left to the caller.
C16_AdapterLeavesEnvironment == [][SfInject => sf_env' = sf_env]_vars

C18_NoKeysNoChange ==
    (sf_keys.mode = "none" /\ sf_pc \in {"injected", "failed", "replied"}) =>
        /\ sf_pc # "failed"
        /\ sf_env = sf_env_before
        /\ sf_env \in SfInitialEnvs

\* an event with A = 123 and B left the Environment at A = "old", without B
C18_Witness ==
    /\ sf_pc = "injected"
    /\ sf_keys = SfNoKeys
    /\ DictKeys(sf_event) = {<<65>>, <<66>>}
    /\ DictGet(sf_event, <<65>>) = JInt(123)
    /\ sf_env = << <<(<<65>>), JStr(<<111, 108, 100>>)>> >>

\* C19 as stated: the reply is the handler's result unchanged, whatever the
\* status code, except that a bytes result is returned decoded to text.
C19_ReplyIsResult ==
    sf_pc = "replied" =>
        sf_reply = [kind |-> "return",
                    body |-> IF sf_body.t = "bytes"
                             THEN StrBody(Utf8Decode(sf_body.b).v)
                             ELSE sf_body]

\* C19 amended: as above for every result that is not bytes and for bytes
\* that are valid UTF-8; for other bytes respond() raises and there is no
\* reply.
C19_ReplyIsResultOrDecodeError ==
    sf_pc = "replied" =>
        IF sf_body.t = "bytes" /\ ~Utf8Decode(sf_body.b).ok
        THEN sf_reply.kind = "raise"
        ELSE sf_reply = [kind |-> "return",
                         body |-> IF sf_body.t = "bytes"
                                  THEN StrBody(Utf8Decode(sf_body.b).v)
                                  ELSE sf_body]

\* b"A\xc3\xa9" with status 404 was returned as "Aé"
C19_Witness ==
    /\ sf_pc = "replied"
    /\ sf_status = 404
    /\ sf_body = BytesBody(<<65, 195, 169>>)
    /\ sf_reply = [kind |-> "return", body |-> StrBody(<<65, 233>>)]

\* C25: the injection is all-or-nothing: when the extraction fails (a missing
\* key in list or mapping mode, a non-mapping return in function mode) the
\* environment is left exactly as it was before the call, also when keys
\* listed before the missing one were present in the event.
C25_AllOrNothing ==
    (/\ sf_pc \in {"injected", "failed", "replied"}
     /\ \/ /\ sf_keys.mode \in {"list", "dict"}
           /\ \E k \in SfRequested(sf_keys) : ~DictHas(sf_event, k)
        \/ /\ sf_keys.mode = "callable"
           /\ SfCallFunction(sf_keys.fn, sf_event).type # "dict") =>
        /\ sf_pc = "failed"
        /\ sf_env = sf_env_before

\* ["A", "B"] met an event that has "A" but not "B": "A" was not injected
C25_Witness ==
    /\ sf_pc = "failed"
    /\ sf_keys = SfListKeys(<< <<65>>, <<66>> >>)
    /\ DictKeys(sf_event) = {<<65>>}
    /\ sf_env = <<>>

\* C26: across the invocations of one context, a key injected into the
\* environment by an earlier invocation and not produced by the extraction
\* of the current invocation is not readable by the current handler.
C26_NoStaleKeys ==
    sf_pc = "replied" =>
        \A k \in DictKeys(sf_env_before) \ UNION {DictKeys(e) : e \in SfInitialEnvs} :
            k \notin DictKeys(SfExtract(sf_keys, sf_event).extracted) =>
                k \notin DictKeys(sf_env)

(***************************************************************************)
(* AWS actions: ActionAws.__call__ (actions/action_aws.py) and the SNS     *)
(* action (actions/sns.py)                                                 *)
(***************************************************************************)
MaxActionCalls == 3

\* the models handed to the action
ActModels ==
    {[name |-> "Jane", email |-> "jane@example.com"], [name |-> "Bob", email |-> ""]}

\* `when`: not configured, or a callable returning True, False or model.email
WhenCallables == {"always", "never", "email"}

\* the topic: a fixed ARN, an environment key whose value is empty, or a
\* callable that has a topic for some models only
TopicSources == {"topic", "topic_environment_key", "topic_callable"}

\* message_callable: not configured, or a callable returning an int
MessageCallables == {"none", "returns_int"}

ActConfigs ==
    [when : {"none"} \cup WhenCallables, topic : TopicSources,
     message_callable : MessageCallables, can_cache : BOOLEAN]

\* the truth value of self.di.call_function(self.when, model=model)
WhenResult(when, model) ==
    IF when = "always" THEN TRUE
    ELSE IF when = "never" THEN FALSE
    ELSE model.email # ""

\* get_topic_arn(model)
GetTopicArn(config, model) ==
    IF config.topic = "topic" THEN "arn:aws:my-topic"
    ELSE IF config.topic = "topic_environment_key" THEN ""
    ELSE IF model.name = "Jane" THEN "arn:aws:janes-topic" ELSE ""

\* get_message_body(model): the JSON of the model, or a TypeError for a
\* message_callable that returns neither str, dict nor list
GetMessageBody(config, model) ==
    IF config.message_callable = "returns_int"
    THEN [error |-> "TypeError", body |-> [name |-> "", email |-> ""]]
    ELSE [error |-> "none", body |-> model]

\* the guard of line 59: the call returns without touching AWS
SkippedNever(config, model) == FALSE
Skipped(config, model) ==
    config.when # "none" /\ ~WhenResult(config.when, model)

\* _get_client(): the cached client, or a new one from boto3.client(...)
GetClientNeverCached(config, client, created) ==
    [client |-> created + 1, cached |-> client, created |-> created + 1]
GetClient(config, client, created) ==
    IF client # 0 /\ config.can_cache
    THEN [client |-> client, cached |-> client, created |-> created]
    ELSE [client |-> created + 1,
          cached |-> IF config.can_cache THEN created + 1 ELSE client,
          created |-> created + 1]

\* SNS._execute_action(client, model): the client calls made and the outcome
ExecuteAction(config, model, publish_fails) ==
    IF GetTopicArn(config, model) = ""
    THEN [publish |-> <<>>, outcome |-> "returned"]
    ELSE IF GetMessageBody(config, model).error # "none"
    THEN [publish |-> <<>>, outcome |-> GetMessageBody(config, model).error]
    ELSE [publish |-> << [TopicArn |-> GetTopicArn(config, model),
                          Message |-> GetMessageBody(config, model).body] >>,
          outcome |-> IF publish_fails THEN "ClientError" ELSE "returned"]

\* an action that was just configured
ActInit ==
    /\ act_config \in ActConfigs
    /\ act_client = 0
    /\ act_clients_created = 0
    /\ act_log = <<>>

ActIdle ==
    /\ act_config = [when |-> "none", topic |-> "topic",
                     message_callable |-> "none", can_cache |-> TRUE]
    /\ act_client = 0
    /\ act_clients_created = 0
    /\ act_log = <<>>

\* __call__(model)
ActCall ==
    /\ Len(act_log) < MaxActionCalls
    /\ \E model \in ActModels, publish_fails \in BOOLEAN :
        IF Skipped(act_config, model)
        THEN /\ act_log' = Append(act_log,
                     [model |-> model, when_args |-> <<model>>, client |-> 0,
                      publish |-> <<>>, outcome |-> "returned"])
             /\ UNCHANGED <<act_client, act_clients_created>>
        ELSE LET got == GetClient(act_config, act_client, act_clients_created)
                 done == ExecuteAction(act_config, model, publish_fails)
             IN  /\ act_client' = got.cached
                 /\ act_clients_created' = got.created
                 /\ act_log' = Append(act_log,
                        [model |-> model,
                         when_args |-> IF act_config.when = "none" THEN <<>>
                                       ELSE <<model>>,
                         client |-> got.client,
                         publish |-> done.publish,
                         outcome |-> done.outcome])
    /\ UNCHANGED act_config
    /\ UNCHANGED nonActVars

ActNext == ActCall

\* C20 as stated: with a `when` callable configured, each call of the action
\* invokes `when` with the model; if it returns false no AWS client call is
\* made for that model, and if it returns true the client call is made once.
C20_WhenGatesClientCall ==
    act_config.when # "none" =>
        \A i \in DOMAIN act_log :
            /\ act_log[i].when_args = <<act_log[i].model>>
            /\ Len(act_log[i].publish)
                   = IF WhenResult(act_config.when, act_log[i].model) THEN 1 ELSE 0

\* C20 amended: as above, but after `when` returned true the client call is
\* made once only if the topic resolves to a non-empty ARN and the message
\* body can be built; otherwise no client call is made.
C20_WhenAndTopicGateClientCall ==
    act_config.when # "none" =>
        \A i \in DOMAIN act_log :
            /\ act_log[i].when_args = <<act_log[i].model>>
            /\ ~WhenResult(act_config.when, act_log[i].model) =>
                   /\ act_log[i].publish = <<>>
                   /\ act_log[i].client = 0
            /\ Len(act_log[i].publish)
                   = IF /\ WhenResult(act_config.when, act_log[i].model)
                        /\ GetTopicArn(act_config, act_log[i].model) # ""
                        /\ act_config.message_callable = "none"
                     THEN 1 ELSE 0

\* `when` returned model.email: Bob's call published nothing, Jane's call
\* published once
C20_Witness ==
    /\ act_config.when = "email"
    /\ act_config.topic = "topic"
    /\ Len(act_log) = 2
    /\ act_log[1].model.name = "Bob"
    /\ act_log[1].publish = <<>>
    /\ act_log[2].model.name = "Jane"
    /\ Len(act_log[2].publish) = 1

\* C28: with can_cache true, over any sequence of calls of one action the
\* boto3 client is created at most once and every later call that needs a
\* client reuses that same client; with can_cache false a new client is
\* created on every call that needs one.
C28_ClientCaching ==
    LET used == {i \in 1..Len(act_log) : ~Skipped(act_config, act_log[i].model)}
    IN  /\ \A i \in used : act_log[i].client # 0
        /\ act_config.can_cache =>
               /\ act_clients_created <= 1
               /\ \A i, j \in used : act_log[i].client = act_log[j].client
               /\ used # {} => act_client = act_log[CHOOSE i \in used : TRUE].client
        /\ ~act_config.can_cache =>
               /\ act_clients_created = Cardinality(used)
               /\ \A i, j \in used : i # j => act_log[i].client # act_log[j].client
               /\ act_client = 0

\* three calls of a caching action shared the one client that was created
C28_Witness ==
    /\ act_config.can_cache
    /\ Len(act_log) = 3
    /\ \A i \in 1..3 : act_log[i].client = 1
    /\ act_clients_created = 1

(***************************************************************************)
(* ParameterStore._sanitize_path (secrets/parameter_store.py)              *)
(***************************************************************************)
\* the character class of the pattern [^a-zA-Z0-9\-_\./@:] without its
\* negation: a-z, A-Z, 0-9 and - _ . / @ :
AllowedPathChars ==
    (97..122) \cup (65..90) \cup (48..57) \cup {45, 95, 46, 47, 64, 58}

Hyphen == 45

\* code points on both sides of every edge of the character class, and
\* white space, a non-ASCII letter and a code point outside the BMP
PathChars ==
    {10, 32, 44, 45, 46, 47, 48, 57, 58, 59, 64, 65, 90, 91, 92, 95, 96, 97,
     122, 123, 233, 128512}

MaxPathLen == 2

SanitizeInputs == SeqsUpTo(PathChars, MaxPathLen)

\* re.sub(pattern, "-", path): every code point the negated class matches
\* is replaced by "-", the other code points are copied
SanitizePathWideRange(p) ==
    [i \in DOMAIN p |->
        IF p[i] \in (65..122) \cup (48..57) \cup {45, 95, 46, 47, 64, 58}
        THEN p[i] ELSE Hyphen]
SanitizePath(p) ==
    [i \in DOMAIN p |->
        IF p[i] \in AllowedPathChars THEN p[i] ELSE Hyphen]

SanInit ==
    /\ san_path \in SanitizeInputs
    /\ san_done = FALSE
    /\ san_ret = <<>>

SanIdle ==
    /\ san_path = <<>>
    /\ san_done = FALSE
    /\ san_ret = <<>>

SanitizeCall ==
    /\ ~san_done
    /\ san_done' = TRUE
    /\ san_ret' = SanitizePath(san_path)
    /\ UNCHANGED san_path
    /\ UNCHANGED nonSanVars

SanNext == SanitizeCall

\* C21: the sanitization replaces every character outside a-z, A-Z, 0-9,
\* - _ . / @ : with a hyphen and leaves every allowed character unchanged
\* in place: the result has the same length, holds only allowed characters,
\* and sanitizing it again changes nothing.
C21_SanitizePath ==
    san_done =>
        /\ Len(san_ret) = Len(san_path)
        /\ \A i \in DOMAIN san_path :
              san_ret[i] = IF san_path[i] \in AllowedPathChars
                           THEN san_path[i] ELSE Hyphen
        /\ Range(san_ret) \subseteq AllowedPathChars
        /\ SanitizePath(san_ret) = san_ret

\* "a`" became "a-": the letter stayed in place, the back quote (the code
\* point right below "a") was replaced
C21_Witness ==
    /\ san_done
    /\ san_path = <<97, 96>>
    /\ san_ret = <<97, 45>>

(***************************************************************************)
(* ParameterStore (secrets/parameter_store.py) and ParameterStoreCache     *)
(* (secrets/cache_storage/parameter_store_cache.py) over an SSM client     *)
(***************************************************************************)
MaxPaths == 21

\* "/c/a", "/c/b", "/d/a" and "/c-a"
PsNames == {<<47, 99, 47, 97>>, <<47, 99, 47, 98>>, <<47, 100, 47, 97>>,
            <<47, 99, 45, 97>>}

NoParameter == [exists |-> FALSE, Value |-> <<>>]
Parameter(value) == [exists |-> TRUE, Value |-> value]

\* a parameter holds "v" or the empty text
PsStored == {NoParameter, Parameter(<<118>>), Parameter(<<>>)}

\* paths asked for: stored names, "/c a" (sanitized to "/c-a") and "/zz"
PsGetPaths == PsNames \cup {<<47, 99, 32, 97>>, <<47, 122, 122>>}

\* error codes of the ClientError an SSM call can end with, apart from
\* ParameterNotFound; "" is a response without an Error code
PsFaults == {"none", "AccessDeniedException", "ThrottlingException", ""}

\* "/c", "/d" and "/c a"
PsPrefixes == {<<47, 99>>, <<47, 100>>, <<47, 99, 32, 97>>}

PsCaches == [prefix : PsPrefixes, allow_cleanup : BOOLEAN]

\* the i-th path of a list: "/c/" or "/c " followed by the i-th letter, or
\* "/c/a" every time
PsPath(family, i) ==
    IF family = "clean" THEN <<47, 99, 47, 96 + i>>
    ELSE IF family = "dirty" THEN <<47, 99, 32, 96 + i>>
    ELSE <<47, 99, 47, 97>>

PsPathLists ==
    {[i \in 1..n |-> PsPath(family, i)] :
        n \in 0..MaxPaths, family \in {"clean", "dirty", "same"}}

PsLookup(store, name) ==
    IF name \in DOMAIN store THEN store[name] ELSE NoParameter

NoPsRet == [kind |-> "none", value |-> <<>>, error |-> ""]
PsReturned(v) == [kind |-> "return", value |-> v, error |-> ""]
PsReturnedNone == [kind |-> "return_none", value |-> <<>>, error |-> ""]
PsReturnedTrue == [kind |-> "return_true", value |-> <<>>, error |-> ""]
PsRaised(error) == [kind |-> "raise", value |-> <<>>, error |-> error]

\* client.get_parameter(Name=name, WithDecryption=True)
SsmGetParameter(store, name, fault) ==
    IF fault # "none" THEN [error |-> fault, Value |-> <<>>]
    ELSE IF ~PsLookup(store, name).exists
    THEN [error |-> "ParameterNotFound", Value |-> <<>>]
    ELSE [error |-> "none", Value |-> PsLookup(store, name).Value]

\* ParameterStore.get(path, silent_if_not_found)
PsGetAlwaysSilent(store, p, silent_if_not_found, fault) ==
    LET result == SsmGetParameter(store, SanitizePath(p), fault)
    IN  IF result.error = "none" THEN PsReturned(result.Value)
        ELSE PsReturnedNone
PsGetResult(store, p, silent_if_not_found, fault) ==
    LET result == SsmGetParameter(store, SanitizePath(p), fault)
    IN  IF result.error = "none" THEN PsReturned(result.Value)
        ELSE IF result.error = "ParameterNotFound"
        THEN IF silent_if_not_found THEN PsReturnedNone
             ELSE PsRaised("NotFound")
        ELSE PsRaised(result.error)

\* the batch size of delete_many
DeleteBatch == 10

\* client.delete_parameters(Names=names): the store afterwards
SsmDeleteParameters(store, names) ==
    [n \in DOMAIN store |-> IF n \in Range(names) THEN NoParameter ELSE store[n]]

RECURSIVE SsmDeleteAll(_, _)
SsmDeleteAll(store, calls) ==
    IF calls = <<>> THEN store
    ELSE SsmDeleteAll(SsmDeleteParameters(store, Head(calls)), Tail(calls))

\* ParameterStore.delete_many(paths): the Names of the delete_parameters
\* calls it issues and its outcome; the fail_at-th call, if any, raises
RECURSIVE DeleteMany(_, _)
DeleteManyWholeList(paths, fail_at) ==
    IF paths = <<>> THEN [calls |-> <<>>, ret |-> PsReturnedTrue]
    ELSE LET sanitized_paths == [i \in DOMAIN paths |-> SanitizePath(paths[i])]
         IN  IF fail_at = 1
             THEN [calls |-> <<sanitized_paths>>, ret |-> PsRaised("ClientError")]
             ELSE [calls |-> <<sanitized_paths>>, ret |-> PsReturnedTrue]
DeleteMany(paths, fail_at) ==
    IF paths = <<>> THEN [calls |-> <<>>, ret |-> PsReturnedTrue]
    ELSE LET sanitized_paths == [i \in DOMAIN paths |-> SanitizePath(paths[i])]
             names == IF Len(sanitized_paths) > DeleteBatch
                      THEN SubSeq(sanitized_paths, 1, DeleteBatch)
                      ELSE sanitized_paths
         IN  IF fail_at = 1
             THEN [calls |-> <<names>>, ret |-> PsRaised("ClientError")]
             ELSE IF Len(sanitized_paths) > DeleteBatch
             THEN LET rest == DeleteMany(
                                  SubSeq(paths, DeleteBatch + 1, Len(paths)),
                                  IF fail_at = 0 THEN 0 ELSE fail_at - 1)
                  IN  [calls |-> <<names>> \o rest.calls, ret |-> rest.ret]
             ELSE [calls |-> <<names>>, ret |-> PsReturnedTrue]

\* the calls of a delete_many that took effect: all but a call that raised
PsEffective(done) ==
    IF done.ret.kind = "raise"
    THEN SubSeq(done.calls, 1, Len(done.calls) - 1)
    ELSE done.calls

RECURSIVE PsListOf(_)
PsListOf(S) ==
    IF S = {} THEN <<>>
    ELSE LET n == CHOOSE x \in S : TRUE IN <<n>> \o PsListOf(S \ {n})

\* whether a name lies in the hierarchy under a path
PsUnder(name, p) ==
    /\ Len(name) > Len(p) + 1
    /\ SubSeq(name, 1, Len(p) + 1) = p \o <<47>>

\* ParameterStore.list_by_path(path, recursive=True): the names of all pages
ListByPath(store, p) ==
    PsListOf({n \in DOMAIN store :
                 store[n].exists /\ PsUnder(n, SanitizePath(p))})

NoPsOp == [name |-> "none", path |-> <<>>, paths |-> <<>>,
           silent_if_not_found |-> FALSE, fault |-> "none"]

\* ParameterStoreCache.clear(): the delete_parameters calls and the outcome
ClearUnguarded(cache, store, fail_at) ==
    LET names == ListByPath(store, cache.prefix)
        done == DeleteMany(names, fail_at)
    IN  IF done.ret.kind = "raise" THEN done
        ELSE [calls |-> done.calls, ret |-> PsReturnedNone]
Clear(cache, store, fail_at) ==
    IF ~cache.allow_cleanup
    THEN [calls |-> <<>>, ret |-> PsRaised("RuntimeError")]
    ELSE LET names == ListByPath(store, cache.prefix)
             done == IF names # <<>> THEN DeleteMany(names, fail_at)
                     ELSE [calls |-> <<>>, ret |-> PsReturnedTrue]
         IN  IF done.ret.kind = "raise" THEN done
             ELSE [calls |-> done.calls, ret |-> PsReturnedNone]

\* the client meets a store with any content, so that one operation from here
\* stands for an operation after any earlier ones
PsInit ==
    /\ ps_store \in [PsNames -> PsStored]
    /\ ps_cache \in PsCaches
    /\ ps_op = NoPsOp
    /\ ps_before = ps_store
    /\ ps_calls = <<>>
    /\ ps_ret = NoPsRet

PsIdle ==
    /\ ps_store = [n \in PsNames |-> NoParameter]
    /\ ps_cache = [prefix |-> <<47, 99>>, allow_cleanup |-> FALSE]
    /\ ps_op = NoPsOp
    /\ ps_before = ps_store
    /\ ps_calls = <<>>
    /\ ps_ret = NoPsRet

\* parameter_store.get(path, silent_if_not_found)
PsGet ==
    /\ ps_op = NoPsOp
    /\ \E p \in PsGetPaths, silent \in BOOLEAN, fault \in PsFaults :
        /\ ps_op' = [NoPsOp EXCEPT !.name = "get", !.path = p,
                                   !.silent_if_not_found = silent,
                                   !.fault = fault]
        /\ ps_ret' = PsGetResult(ps_store, p, silent, fault)
    /\ ps_before' = ps_store
    /\ ps_calls' = <<>>
    /\ UNCHANGED <<ps_store, ps_cache>>
    /\ UNCHANGED nonPsVars

\* parameter_store.delete_many(paths)
PsDeleteMany ==
    /\ ps_op = NoPsOp
    /\ \E paths \in PsPathLists, fail_at \in 0..3 :
        LET done == DeleteMany(paths, fail_at)
        IN  /\ ps_op' = [NoPsOp EXCEPT !.name = "delete_many", !.paths = paths]
            /\ ps_calls' = done.calls
            /\ ps_ret' = done.ret
            /\ ps_store' = SsmDeleteAll(ps_store, PsEffective(done))
    /\ ps_before' = ps_store
    /\ UNCHANGED ps_cache
    /\ UNCHANGED nonPsVars

\* parameter_store_cache.clear()
PsCacheClear ==
    /\ ps_op = NoPsOp
    /\ \E fail_at \in 0..1 :
        LET done == Clear(ps_cache, ps_store, fail_at)
        IN  /\ ps_op' = [NoPsOp EXCEPT !.name = "clear"]
            /\ ps_calls' = done.calls
            /\ ps_ret' = done.ret
            /\ ps_store' = SsmDeleteAll(ps_store, PsEffective(done))
    /\ ps_before' = ps_store
    /\ UNCHANGED ps_cache
    /\ UNCHANGED nonPsVars

PsNext ==
    \/ PsGet
    \/ PsDeleteMany
    \/ PsCacheClear

\* C22: get returns the stored value when the parameter exists; when the
\* store reports ParameterNotFound it returns None if silent_if_not_found is
\* true and raises NotFound otherwise; any other client error is re-raised
\* unchanged.
C22_GetOutcome ==
    ps_op.name = "get" =>
        LET stored == PsLookup(ps_before, SanitizePath(ps_op.path))
        IN  IF ps_op.fault # "none" THEN ps_ret = PsRaised(ps_op.fault)
            ELSE IF stored.exists THEN ps_ret = PsReturned(stored.Value)
            ELSE IF ps_op.silent_if_not_found THEN ps_ret = PsReturnedNone
            ELSE ps_ret = PsRaised("NotFound")

\* a silent get of "/zz", which is not stored, returned None
C22_Witness ==
    /\ ps_op.name = "get"
    /\ ps_op.path = <<47, 122, 122>>
    /\ ps_op.silent_if_not_found
    /\ ps_op.fault = "none"
    /\ ps_ret = PsReturnedNone

\* C23: delete_many(paths) terminates for every finite list, issues
\* delete_parameters calls of at most 10 names each, and over all calls
\* passes every sanitized path exactly once in the original order (up to
\* the call that raised, if the client raised); for an empty list it issues
\* no call and returns True.
C23_DeleteManyBatches ==
    ps_op.name = "delete_many" =>
        LET sanitized == [i \in DOMAIN ps_op.paths |-> SanitizePath(ps_op.paths[i])]
            passed == Concat(ps_calls)
        IN  /\ ps_ret.kind \in {"return_true", "raise"}
            /\ \A c \in DOMAIN ps_calls :
                  Len(ps_calls[c]) >= 1 /\ Len(ps_calls[c]) <= 10
            /\ Len(passed) <= Len(sanitized)
            /\ passed = SubSeq(sanitized, 1, Len(passed))
            /\ ps_ret.kind = "return_true" => passed = sanitized
            /\ ps_op.paths = <<>> => ps_calls = <<>> /\ ps_ret = PsReturnedTrue

\* 21 paths went out in three calls of 10, 10 and 1 names
C23_Witness ==
    /\ ps_op.name = "delete_many"
    /\ Len(ps_op.paths) = 21
    /\ ps_op.paths[1] = <<47, 99, 32, 97>>
    /\ ps_ret = PsReturnedTrue
    /\ Len(ps_calls) = 3
    /\ Len(ps_calls[1]) = 10 /\ Len(ps_calls[2]) = 10 /\ Len(ps_calls[3]) = 1
    /\ ps_calls[1][1] = <<47, 99, 45, 97>>

\* C24: clear() raises RuntimeError and deletes nothing whenever
\* allow_cleanup is false; with allow_cleanup true it deletes every parameter
\* listed recursively under the configured prefix.
C24_ClearGuard ==
    ps_op.name = "clear" =>
        LET listed == {n \in PsNames : ps_before[n].exists
                                       /\ PsUnder(n, SanitizePath(ps_cache.prefix))}
        IN  /\ ~ps_cache.allow_cleanup =>
                  /\ ps_ret = PsRaised("RuntimeError")
                  /\ ps_calls = <<>>
                  /\ ps_store = ps_before
            /\ ps_cache.allow_cleanup /\ ps_ret.kind # "raise" =>
                  /\ ps_ret = PsReturnedNone
                  /\ Range(Concat(ps_calls)) = listed
                  /\ \A n \in listed : ~ps_store[n].exists
                  /\ \A n \in PsNames \ listed : ps_store[n] = ps_before[n]

\* with allow_cleanup false "/c/a" was stored and is still there after the
\* RuntimeError
C24_Witness ==
    /\ ps_op.name = "clear"
    /\ ~ps_cache.allow_cleanup
    /\ ps_cache.prefix = <<47, 99>>
    /\ ps_before[<<47, 99, 47, 97>>].exists
    /\ ps_store[<<47, 99, 47, 97>>].exists
    /\ ps_ret = PsRaised("RuntimeError")

(***************************************************************************)
(* RDS IAM authentication (cursors/iam/mysql.py)                           *)
(***************************************************************************)
\* "db", "u", "proxy", "localhost", "eu", "us"
MyHost == <<100, 98>>
MyUser == <<117>>
MyProxyHost == <<112, 114, 111, 120, 121>>
Localhost == <<108, 111, 99, 97, 108, 104, 111, 115, 116>>
MyRegions == {<<101, 117>>, <<117, 115>>}

DefaultProxyPort == 3307

\* "3306", and for the proxy "3308" and "0"
MyPortTexts == {<<51, 51, 48, 54>>}
MyProxyPortTexts == {<<51, 51, 48, 56>>, <<48>>}

Optional(S) == {NoneText} \cup {SomeText(s) : s \in S}

\* environment.get(key, silent=True) of the keys the cursor reads; the
\* user, host and database names are set
MyEnvs ==
    [DATABASE_PORT : Optional(MyPortTexts),
     DATABASE_CONNECT_TIMEOUT : Optional({<<49, 48>>}),
     DATABASE_REGION : Optional({<<101, 117>>}),
     AWS_REGION : Optional({<<117, 115>>}),
     DATABASE_PROXY_HOST : Optional({MyProxyHost}),
     DATABASE_PROXY_PORT : Optional(MyProxyPortTexts)]

\* Python's `a or b` over optional texts
OrText(a, b) == IF a.isNone \/ a.s = <<>> THEN b ELSE a

NoMyRet == [kind |-> "none", error |-> "", host |-> <<>>, port |-> 0,
            password |-> <<>>]
MyRaised(error) == [NoMyRet EXCEPT !.kind = "raise", !.error = error]

\* rds_api.generate_db_auth_token(DBHostname, Port, DBUsername, Region): the
\* token stands for the arguments it was made from
TokenCall(host, port, user, region) ==
    <<host, port, user, region>>

\* build_connection_kwargs(): the token calls made and the outcome
BuildConnectionKwargs(env, port_forwarding, base_port) ==
    LET region == OrText(env.DATABASE_REGION, env.AWS_REGION)
    IN  IF env.DATABASE_PORT.isNone \/ env.DATABASE_CONNECT_TIMEOUT.isNone
        THEN [token_calls |-> <<>>, ret |-> MyRaised("TypeError")]
        ELSE IF region.isNone
        THEN [token_calls |-> <<>>, ret |-> MyRaised("ValueError")]
        ELSE
        LET call == TokenCall(MyHost, TextToNat(env.DATABASE_PORT.s), MyUser,
                              region.s)
            host == IF port_forwarding
                    THEN OrText(env.DATABASE_PROXY_HOST, SomeText(Localhost)).s
                    ELSE MyHost
            port == IF port_forwarding
                    THEN IF OrText(env.DATABASE_PROXY_PORT, NoneText).isNone
                         THEN DefaultProxyPort
                         ELSE TextToNat(env.DATABASE_PROXY_PORT.s)
                    ELSE TextToNat(env.DATABASE_PORT.s)
        IN  [token_calls |-> <<call>>,
             ret |-> [kind |-> "return", error |-> "", host |-> host,
                      port |-> IF port = 0 THEN base_port ELSE port,
                      password |-> call]]

MyInit ==
    /\ my_env \in MyEnvs
    /\ my_port_forwarding \in BOOLEAN
    /\ my_base_port \in {0, 3306}
    /\ my_done = FALSE
    /\ my_token_calls = <<>>
    /\ my_ret = NoMyRet

MyIdle ==
    /\ my_env = [DATABASE_PORT |-> NoneText, DATABASE_CONNECT_TIMEOUT |-> NoneText,
                 DATABASE_REGION |-> NoneText, AWS_REGION |-> NoneText,
                 DATABASE_PROXY_HOST |-> NoneText,
                 DATABASE_PROXY_PORT |-> NoneText]
    /\ my_port_forwarding = FALSE
    /\ my_base_port = 0
    /\ my_done = FALSE
    /\ my_token_calls = <<>>
    /\ my_ret = NoMyRet

MyBuildConnectionKwargs ==
    /\ ~my_done
    /\ my_done' = TRUE
    /\ LET built == BuildConnectionKwargs(my_env, my_port_forwarding, my_base_port)
       IN  /\ my_token_calls' = built.token_calls
           /\ my_ret' = built.ret
    /\ UNCHANGED <<my_env, my_port_forwarding, my_base_port>>
    /\ UNCHANGED nonMyVars

MyNext == MyBuildConnectionKwargs

\* C29: with port forwarding enabled the token is generated for the real
\* database host and port before they are overridden, the returned host and
\* port are the proxy's (default localhost and 3307) and the password is that
\* token; with no region configured it raises ValueError and generates no
\* token.
C29_TokenBeforeProxy ==
    my_done =>
        /\ my_port_forwarding
           /\ ~OrText(my_env.DATABASE_REGION, my_env.AWS_REGION).isNone =>
              /\ my_ret.kind = "return"
              /\ Len(my_token_calls) = 1
              /\ my_token_calls[1][1] = MyHost
              /\ my_token_calls[1][2] = TextToNat(my_env.DATABASE_PORT.s)
              /\ my_ret.password = my_token_calls[1]
              /\ my_ret.host = OrText(my_env.DATABASE_PROXY_HOST,
                                      SomeText(Localhost)).s
              /\ my_ret.port = IF my_env.DATABASE_PROXY_PORT.isNone
                               THEN DefaultProxyPort
                               ELSE TextToNat(my_env.DATABASE_PROXY_PORT.s)
        /\ OrText(my_env.DATABASE_REGION, my_env.AWS_REGION).isNone =>
              /\ my_ret = MyRaised("ValueError")
              /\ my_token_calls = <<>>

(***************************************************************************)
(* MySql.port_forwarding_context: the tunnel through the bastion           *)
(***************************************************************************)
ProbeLimit == 6

PfEnvs ==
    [DATABASE_PORT : Optional(MyPortTexts),
     DATABASE_PROXY_PORT : Optional({<<51, 51, 48, 56>>}),
     DATABASE_PROXY_HOST : Optional({MyProxyHost}),
     DATABASE_REGION : Optional({<<101, 117>>}),
     AWS_REGION : Optional({<<117, 115>>})]

NoPfRet == [kind |-> "none", value |-> FALSE, error |-> ""]
PfReturned(v) == [kind |-> "return", value |-> v, error |-> ""]
PfRaised(error) == [kind |-> "raise", value |-> FALSE, error |-> error]

\* the condition of the while loop
PfMayProbeAgain(connected, attempts) == attempts < ProbeLimit
PfMayProbe(connected, attempts) == ~connected /\ attempts < ProbeLimit

PfInit ==
    /\ pf_env \in PfEnvs
    /\ pf_pc = "start"
    /\ pf_attempts = 0
    /\ pf_connected = FALSE
    /\ pf_probes = <<>>
    /\ pf_calls = <<>>
    /\ pf_ret = NoPfRet

PfIdle ==
    /\ pf_env = [DATABASE_PORT |-> NoneText, DATABASE_PROXY_PORT |-> NoneText,
                 DATABASE_PROXY_HOST |-> NoneText,
                 DATABASE_REGION |-> NoneText, AWS_REGION |-> NoneText]
    /\ pf_pc = "start"
    /\ pf_attempts = 0
    /\ pf_connected = FALSE
    /\ pf_probes = <<>>
    /\ pf_calls = <<>>
    /\ pf_ret = NoPfRet

\* lines 85-100: the values read from the environment
PfReadEnvironment ==
    /\ pf_pc = "start"
    /\ IF pf_env.DATABASE_PORT.isNone \/ pf_env.DATABASE_PROXY_PORT.isNone
       THEN pf_pc' = "done" /\ pf_ret' = PfRaised("TypeError")
       ELSE IF OrText(pf_env.DATABASE_REGION, pf_env.AWS_REGION).isNone
       THEN pf_pc' = "done" /\ pf_ret' = PfRaised("ValueError")
       ELSE pf_pc' = "first_probe" /\ pf_ret' = pf_ret
    /\ UNCHANGED <<pf_env, pf_attempts, pf_connected, pf_probes, pf_calls>>
    /\ UNCHANGED nonPfVars

\* lines 102-107: connect_ex on the proxy port before anything is launched
PfFirstProbe ==
    /\ pf_pc = "first_probe"
    /\ \E result \in {0, 111} :
        IF result = 0
        THEN pf_pc' = "done" /\ pf_ret' = PfReturned(TRUE)
        ELSE pf_pc' = "find_bastion" /\ pf_ret' = pf_ret
    /\ UNCHANGED <<pf_env, pf_attempts, pf_connected, pf_probes, pf_calls>>
    /\ UNCHANGED nonPfVars

\* lines 109-129: describe_instances and the choice of the bastion
PfFindBastion ==
    /\ pf_pc = "find_bastion"
    /\ pf_calls' = Append(pf_calls, "describe_instances")
    /\ \E instances \in 0..2 :
        IF instances = 0
        THEN pf_pc' = "done" /\ pf_ret' = PfRaised("ValueError")
        ELSE pf_pc' = "launch" /\ pf_ret' = pf_ret
    /\ UNCHANGED <<pf_env, pf_attempts, pf_connected, pf_probes>>
    /\ UNCHANGED nonPfVars

\* lines 131-148: Popen of the tunnel command
PfLaunchTunnel ==
    /\ pf_pc = "launch"
    /\ pf_calls' = Append(pf_calls, "Popen")
    /\ pf_connected' = FALSE
    /\ pf_attempts' = 0
    /\ pf_pc' = "loop"
    /\ UNCHANGED <<pf_env, pf_probes, pf_ret>>
    /\ UNCHANGED nonPfVars

\* lines 149-155: one round of the while loop
PfProbe ==
    /\ pf_pc = "loop"
    /\ PfMayProbe(pf_connected, pf_attempts)
    /\ pf_attempts' = pf_attempts + 1
    /\ \E result \in {0, 111} :
        /\ pf_probes' = Append(pf_probes, result = 0)
        /\ pf_connected' = IF result = 0 THEN TRUE ELSE pf_connected
    /\ UNCHANGED <<pf_env, pf_pc, pf_calls, pf_ret>>
    /\ UNCHANGED nonPfVars

\* lines 156-160: after the loop
PfFinish ==
    /\ pf_pc = "loop"
    /\ ~PfMayProbe(pf_connected, pf_attempts)
    /\ pf_pc' = "done"
    /\ pf_ret' = PfReturned(pf_connected)
    /\ UNCHANGED <<pf_env, pf_attempts, pf_connected, pf_probes, pf_calls>>
    /\ UNCHANGED nonPfVars

PfNext ==
    \/ PfReadEnvironment
    \/ PfFirstProbe
    \/ PfFindBastion
    \/ PfLaunchTunnel
    \/ PfProbe
    \/ PfFinish

\* C27: port_forwarding_context always terminates; when the proxy port is
\* already open it returns True without looking up a bastion or launching a
\* tunnel; after launching the tunnel it probes the proxy port at most 6
\* times, stops at the first probe that succeeds, and returns True exactly
\* when one probe succeeded and False after the sixth failed probe.
C27_PortForwardingTerminates ==
    /\ [](/\ Len(pf_probes) <= 6
          /\ \A i \in DOMAIN pf_probes : pf_probes[i] => i = Len(pf_probes)
          /\ pf_pc = "done" /\ pf_calls = <<>> /\ pf_ret.kind = "return" =>
                pf_ret.value = TRUE /\ pf_probes = <<>>
          /\ pf_pc = "done" /\ "Popen" \in Range(pf_calls) =>
                /\ pf_ret.kind = "return"
                /\ pf_ret.value = (TRUE \in Range(pf_probes))
                /\ ~pf_ret.value => Len(pf_probes) = 6
          /\ pf_probes # <<>> => pf_calls = <<"describe_instances", "Popen">>)
    /\ <>(pf_pc = "done")

\* six probes failed after the tunnel was launched and False was returned
C27_Witness ==
    /\ pf_pc = "done"
    /\ pf_calls = <<"describe_instances", "Popen">>
    /\ pf_probes = <<FALSE, FALSE, FALSE, FALSE, FALSE, FALSE>>
    /\ pf_ret = PfReturned(FALSE)

(***************************************************************************)
(* Specifications: one per component, the other components stay idle       *)
(***************************************************************************)
InitSqs == SqsInit /\ GwIdle /\ BodyIdle /\ RespIdle /\ IpIdle /\
    AlbIdle /\ SnsIdle /\ SfIdle /\ ActIdle /\ SanIdle /\ PsIdle /\
    MyIdle /\ PfIdle

SpecSqs == InitSqs /\ [][SqsNext]_vars

InitGw == GwIdle /\ SqsInit /\ BodyIdle /\ RespIdle /\ IpIdle /\ AlbIdle /\
    SnsIdle /\ SfIdle /\ ActIdle /\ SanIdle /\ PsIdle /\ MyIdle /\ PfIdle

SpecGw == InitGw /\ [][GwNext]_vars

InitBody == BodyInit /\ SqsInit /\ GwIdle /\ RespIdle /\ IpIdle /\
    AlbIdle /\ SnsIdle /\ SfIdle /\ ActIdle /\ SanIdle /\ PsIdle /\
    MyIdle /\ PfIdle

SpecBody == InitBody /\ [][BodyNext]_vars

InitRespond == RespIdle /\ SqsInit /\ GwIdle /\ BodyIdle /\ IpIdle /\
    AlbIdle /\ SnsIdle /\ SfIdle /\ ActIdle /\ SanIdle /\ PsIdle /\
    MyIdle /\ PfIdle

SpecRespond == InitRespond /\ [][RespNext]_vars

InitClientIp == IpIdle /\ SqsInit /\ GwIdle /\ BodyIdle /\ RespIdle /\
    AlbIdle /\ SnsIdle /\ SfIdle /\ ActIdle /\ SanIdle /\ PsIdle /\
    MyIdle /\ PfIdle

SpecClientIp == InitClientIp /\ [][IpNext]_vars

InitAlb == AlbIdle /\ SqsInit /\ GwIdle /\ BodyIdle /\ RespIdle /\
    IpIdle /\ SnsIdle /\ SfIdle /\ ActIdle /\ SanIdle /\ PsIdle /\
    MyIdle /\ PfIdle

SpecAlb == InitAlb /\ [][AlbNext]_vars

InitSns == SnsIdle /\ SqsInit /\ GwIdle /\ BodyIdle /\ RespIdle /\
    IpIdle /\ AlbIdle /\ SfIdle /\ ActIdle /\ SanIdle /\ PsIdle /\
    MyIdle /\ PfIdle

SpecSns == InitSns /\ [][SnsNext]_vars

InitStepFunction == SfInit /\ SqsInit /\ GwIdle /\ BodyIdle /\ RespIdle /\
    IpIdle /\ AlbIdle /\ SnsIdle /\ ActIdle /\ SanIdle /\ PsIdle /\
    MyIdle /\ PfIdle

SpecStepFunction == InitStepFunction /\ [][SfNext]_vars

InitAction == ActInit /\ SqsInit /\ GwIdle /\ BodyIdle /\ RespIdle /\
    IpIdle /\ AlbIdle /\ SnsIdle /\ SfIdle /\ SanIdle /\ PsIdle /\
    MyIdle /\ PfIdle

SpecAction == InitAction /\ [][ActNext]_vars

InitSanitize == SanInit /\ SqsInit /\ GwIdle /\ BodyIdle /\ RespIdle /\
    IpIdle /\ AlbIdle /\ SnsIdle /\ SfIdle /\ ActIdle /\ PsIdle /\
    MyIdle /\ PfIdle

SpecSanitize == InitSanitize /\ [][SanNext]_vars

InitParameterStore == PsInit /\ SqsInit /\ GwIdle /\ BodyIdle /\
    RespIdle /\ IpIdle /\ AlbIdle /\ SnsIdle /\ SfIdle /\ ActIdle /\
    SanIdle /\ MyIdle /\ PfIdle

SpecParameterStore == InitParameterStore /\ [][PsNext]_vars

InitMySql == MyInit /\ SqsInit /\ GwIdle /\ BodyIdle /\ RespIdle /\
    IpIdle /\ AlbIdle /\ SnsIdle /\ SfIdle /\ ActIdle /\ SanIdle /\
    PsIdle /\ PfIdle

SpecMySql == InitMySql /\ [][MyNext]_vars

InitPortForwarding == PfInit /\ SqsInit /\ GwIdle /\ BodyIdle /\
    RespIdle /\ IpIdle /\ AlbIdle /\ SnsIdle /\ SfIdle /\ ActIdle /\
    SanIdle /\ PsIdle /\ MyIdle

SpecPortForwarding == InitPortForwarding /\ [][PfNext]_vars /\ WF_vars(PfNext)

====
